---------------------------- MODULE Spec2Model ----------------------------
(***************************************************************************)
(* Model of the invoice analyser (src/app.py, AnalyseurFacturesPro and its *)
(* Streamlit driver main; src/invoice_analyzer.py, InvoiceAnalyzer and     *)
(* process_invoices).                                                      *)
(*                                                                         *)
(* Texts are strings, read one character at a time.  The regular           *)
(* expressions of the source are kept as data (sequences of nodes) and     *)
(* matched by a backtracking matcher with the semantics of Python's re     *)
(* (leftmost match, greedy and lazy quantifiers tried in order, groups).   *)
(* Python floats are modelled as exact rationals <<n, d>> in lowest terms. *)
(* An exception is modelled as the value Raise propagating through the     *)
(* callers up to the first try/except.                                     *)
(***************************************************************************)
EXTENDS Integers, Sequences, FiniteSets, TLC

(***************************************************************************)
(* Characters and Python string methods                                    *)
(***************************************************************************)
Ch(s, i) == SubSeq(s, i, i)

Digits == {"0", "1", "2", "3", "4", "5", "6", "7", "8", "9"}

UpperLetters ==
    {"A", "B", "C", "D", "E", "F", "G", "H", "I", "J", "K", "L", "M",
     "N", "O", "P", "Q", "R", "S", "T", "U", "V", "W", "X", "Y", "Z"}

LowerLetters ==
    {"a", "b", "c", "d", "e", "f", "g", "h", "i", "j", "k", "l", "m",
     "n", "o", "p", "q", "r", "s", "t", "u", "v", "w", "x", "y", "z"}

\* Accented letters that occur in the source's tables or in the documents.
AccentUpper == {"È", "É", "Ô", "Â", "Î", "À"}
AccentLower == {"è", "é", "ô", "â", "î", "à"}

\* str.isdigit() is true of the superscript digits, which int() rejects and
\* which \d does not match.
SuperDigits == {"²", "³"}

\* \s of re (str patterns): blank, tab, line feed (among others).
Spaces == {" ", "\t", "\n"}

Punct == {",", ".", "-", "/", ":", "°", "%", "(", ")", "*", "'", "€", "_", "=", "×"}

Alphabet ==
    Digits \cup UpperLetters \cup LowerLetters \cup AccentUpper \cup AccentLower
           \cup SuperDigits \cup Spaces \cup Punct

\* \w of re (str patterns): alphanumerics of Unicode and the underscore.
WordChars ==
    Digits \cup UpperLetters \cup LowerLetters \cup AccentUpper \cup AccentLower
           \cup SuperDigits \cup {"_"}

\* . of re without DOTALL
AnyChar == Alphabet \ {"\n"}

UpperOf ==
    [c \in Alphabet |->
       CASE c = "a" -> "A" [] c = "b" -> "B" [] c = "c" -> "C" [] c = "d" -> "D"
         [] c = "e" -> "E" [] c = "f" -> "F" [] c = "g" -> "G" [] c = "h" -> "H"
         [] c = "i" -> "I" [] c = "j" -> "J" [] c = "k" -> "K" [] c = "l" -> "L"
         [] c = "m" -> "M" [] c = "n" -> "N" [] c = "o" -> "O" [] c = "p" -> "P"
         [] c = "q" -> "Q" [] c = "r" -> "R" [] c = "s" -> "S" [] c = "t" -> "T"
         [] c = "u" -> "U" [] c = "v" -> "V" [] c = "w" -> "W" [] c = "x" -> "X"
         [] c = "y" -> "Y" [] c = "z" -> "Z"
         [] c = "è" -> "È" [] c = "é" -> "É" [] c = "ô" -> "Ô" [] c = "â" -> "Â"
         [] c = "î" -> "Î" [] c = "à" -> "À"
         [] OTHER -> c]

LowerOf ==
    [c \in Alphabet |->
       IF \E d \in Alphabet : d # c /\ UpperOf[d] = c
       THEN CHOOSE d \in Alphabet : d # c /\ UpperOf[d] = c
       ELSE c]

\* the string of f[c] for the characters c of s (by halves, to keep the
\* evaluation shallow)
RECURSIVE MapChars(_, _)
MapChars(f, s) ==
    IF s = "" THEN ""
    ELSE IF Len(s) = 1 THEN f[s]
    ELSE LET h == Len(s) \div 2
         IN  MapChars(f, SubSeq(s, 1, h)) \o MapChars(f, SubSeq(s, h + 1, Len(s)))

\* str.upper(), str.lower()
Upper(s) == MapChars(UpperOf, s)
Lower(s) == MapChars(LowerOf, s)

\* p in s
StartsAt(p, s, i) == i + Len(p) - 1 <= Len(s) /\ SubSeq(s, i, i + Len(p) - 1) = p
Contains(p, s) == \E i \in 1..(Len(s) + 1) : StartsAt(p, s, i)

\* s.replace(a, b) for a single character a
RECURSIVE Replace(_, _, _)
Replace(s, a, b) ==
    IF s = "" THEN ""
    ELSE IF Len(s) = 1 THEN (IF s = a THEN b ELSE s)
    ELSE LET h == Len(s) \div 2
         IN  Replace(SubSeq(s, 1, h), a, b) \o Replace(SubSeq(s, h + 1, Len(s)), a, b)

\* s.strip()
Strip(s) ==
    LET keep == {i \in 1..Len(s) : Ch(s, i) \notin Spaces}
    IN  IF keep = {} THEN ""
        ELSE SubSeq(s, CHOOSE i \in keep : \A j \in keep : i <= j,
                       CHOOSE i \in keep : \A j \in keep : i >= j)

\* s.split('\n')
RECURSIVE SplitLines(_)
SplitLines(s) ==
    IF \E i \in 1..Len(s) : Ch(s, i) = "\n"
    THEN LET i == CHOOSE k \in 1..Len(s) :
                     Ch(s, k) = "\n" /\ \A j \in 1..(k - 1) : Ch(s, j) # "\n"
         IN  <<SubSeq(s, 1, i - 1)>> \o SplitLines(SubSeq(s, i + 1, Len(s)))
    ELSE <<s>>

\* s.isdigit()
IsDigitStr(s) == s # "" /\ \A i \in 1..Len(s) : Ch(s, i) \in Digits \cup SuperDigits


(***************************************************************************)
(* Python numbers.  A float is an exact rational <<n, d>>, d > 0, in       *)
(* lowest terms; rounding of binary floating point is not modelled.        *)
(* int() and float() give [ok |-> TRUE, v |-> value] or, where Python      *)
(* raises ValueError, [ok |-> FALSE].                                      *)
(***************************************************************************)
RECURSIVE Gcd(_, _)
Gcd(a, b) == IF b = 0 THEN a ELSE Gcd(b, a % b)

Abs(x) == IF x < 0 THEN -x ELSE x

Rat(n, d) ==
    LET g == Gcd(Abs(n), Abs(d))
        sg == IF d < 0 THEN -1 ELSE 1
    IN  IF n = 0 THEN <<0, 1>> ELSE <<sg * (n \div g), sg * (d \div g)>>

RInt(k) == <<k, 1>>
RMul(a, b) == Rat(a[1] * b[1], a[2] * b[2])
\* a / b, b # 0
RDiv(a, b) == Rat(a[1] * b[2], a[2] * b[1])
RAdd(a, b) == Rat(a[1] * b[2] + b[1] * a[2], a[2] * b[2])
RSub(a, b) == Rat(a[1] * b[2] - b[1] * a[2], a[2] * b[2])
RAbs(a) == <<Abs(a[1]), a[2]>>
RLess(a, b) == a[1] * b[2] < b[1] * a[2]
RLeq(a, b) == a[1] * b[2] <= b[1] * a[2]
RZero == <<0, 1>>

DigitVal ==
    [c \in Digits |->
       CASE c = "0" -> 0 [] c = "1" -> 1 [] c = "2" -> 2 [] c = "3" -> 3
         [] c = "4" -> 4 [] c = "5" -> 5 [] c = "6" -> 6 [] c = "7" -> 7
         [] c = "8" -> 8 [] c = "9" -> 9]

AllDigits(s) == \A i \in 1..Len(s) : Ch(s, i) \in Digits

RECURSIVE DecVal(_)
DecVal(s) == IF s = "" THEN 0 ELSE 10 * DecVal(SubSeq(s, 1, Len(s) - 1)) + DigitVal[Ch(s, Len(s))]

RECURSIVE Pow10(_)
Pow10(k) == IF k = 0 THEN 1 ELSE 10 * Pow10(k - 1)

Failed == [ok |-> FALSE]
Ok(v) == [ok |-> TRUE, v |-> v]

\* int(s): surrounding whitespace is ignored, then decimal digits only
\* (a superscript digit is a ValueError)
IntStripped(t) == IF t # "" /\ AllDigits(t) THEN Ok(DecVal(t)) ELSE Failed
PyInt(s) == IntStripped(Strip(s))

\* float(s): surrounding whitespace is ignored, then digits with at most one
\* point and at least one digit; anything else (a second point, whitespace
\* inside, a comma) is a ValueError.  Signs, exponents, inf and nan never
\* reach float() from the patterns of the source.
\* the place of the first point of t, Len(t) + 1 if it has none
PremierPoint(t) ==
    CHOOSE i \in 1..(Len(t) + 1) :
        /\ i <= Len(t) => Ch(t, i) = "."
        /\ \A j \in 1..(i - 1) : Ch(t, j) # "."
\* digits ip, a point, digits fp (a second point is in fp)
FloatPoint(ip, fp) ==
    IF AllDigits(ip) /\ AllDigits(fp) /\ Len(ip) + Len(fp) > 0
    THEN Ok(Rat(DecVal(ip) * Pow10(Len(fp)) + DecVal(fp), Pow10(Len(fp))))
    ELSE Failed
FloatStripped(t, i) ==
    IF i > Len(t)
    THEN IF t # "" /\ AllDigits(t) THEN Ok(RInt(DecVal(t))) ELSE Failed
    ELSE FloatPoint(SubSeq(t, 1, i - 1), SubSeq(t, i + 1, Len(t)))
PyFloat(s) == FloatStripped(Strip(s), PremierPoint(Strip(s)))

(***************************************************************************)
(* Regular expressions (module re).  A pattern is a sequence of nodes:     *)
(*   Set(cs)            one character of the set cs                        *)
(*   Rep(body,lo,hi)    greedy repetition, RepLazy the lazy one            *)
(*   Grp(id, body)      capturing group number id                          *)
(*   Alt(alternatives)  alternation, tried left to right                   *)
(*   Bol, Eol, WordB    ^, $ and \b                                        *)
(* Match gives [ok |-> FALSE] or [ok |-> TRUE, end, caps] where caps[id]   *)
(* is <<first, last+1>> of group id, <<0, 0>> for a group that took no     *)
(* part in the match.                                                      *)
(***************************************************************************)
\* no bound on a repetition: more than any text has characters
Inf == 1000 * 1000

Set(cs) == [k |-> "set", cs |-> cs]
Lit(c) == Set({c})
Rep(body, lo, hi) == [k |-> "rep", body |-> body, lo |-> lo, hi |-> hi, lazy |-> FALSE]
RepLazy(body, lo, hi) == [k |-> "rep", body |-> body, lo |-> lo, hi |-> hi, lazy |-> TRUE]
Grp(id, body) == [k |-> "grp", id |-> id, body |-> body]
Alt(alts) == [k |-> "alt", alts |-> alts]
Bol == [k |-> "bol"]
Eol == [k |-> "eol"]
WordB == [k |-> "wordb"]
Close(id, start) == [k |-> "close", id |-> id, start |-> start]

Opt(body) == Rep(body, 0, 1)
Star(body) == Rep(body, 0, Inf)
Plus(body) == Rep(body, 1, Inf)

\* a literal word, one node per character; with re.IGNORECASE both cases
Word(w) == [j \in 1..Len(w) |-> Lit(Ch(w, j))]
WordI(w) == [j \in 1..Len(w) |-> Set({UpperOf[Ch(w, j)], LowerOf[Ch(w, j)]})]

D == Set(Digits)
S == Set(Spaces)
W == Set(WordChars)
Dot == Set(AnyChar)

NoCaps == [g \in 1..7 |-> <<0, 0>>]
NoMatch == [ok |-> FALSE]

IsWordAt(s, i) == i >= 1 /\ i <= Len(s) /\ Ch(s, i) \in WordChars

\* the first of two attempts that matched
Premier(m, suite) == IF m.ok THEN m ELSE suite

RECURSIVE Match(_, _, _, _)
RECURSIVE MatchAlt(_, _, _, _, _)
Match(s, nodes, pos, caps) ==
    IF Len(nodes) = 0 THEN [ok |-> TRUE, end |-> pos, caps |-> caps]
    ELSE
      LET n == Head(nodes)
          rest == Tail(nodes)
      IN  CASE n.k = "set" ->
                 IF pos <= Len(s) /\ Ch(s, pos) \in n.cs
                 THEN Match(s, rest, pos + 1, caps)
                 ELSE NoMatch
            [] n.k = "grp" ->
                 Match(s, n.body \o <<Close(n.id, pos)>> \o rest, pos, caps)
            [] n.k = "close" ->
                 Match(s, rest, pos, [caps EXCEPT ![n.id] = <<n.start, pos>>])
            [] n.k = "alt" -> MatchAlt(s, n.alts, rest, pos, caps)
            [] n.k = "rep" /\ Len(n.body) = 1 /\ n.body[1].k = "set" ->
                 \* a repeated character set: the run lengths the set allows,
                 \* longest first (greedy) or shortest first (lazy)
                 LET cs == n.body[1].cs
                     lim == IF n.hi < Len(s) - pos + 1 THEN n.hi ELSE Len(s) - pos + 1
                     run == CHOOSE r \in 0..lim :
                              /\ \A j \in 0..(r - 1) : Ch(s, pos + j) \in cs
                              /\ r < lim => Ch(s, pos + r) \notin cs
                     tries == {<<r, Match(s, rest, pos + r, caps)>> : r \in n.lo..run}
                     good == {t \in tries : t[2].ok}
                     pick == IF n.lazy
                             THEN CHOOSE t \in good : \A q \in good : t[1] <= q[1]
                             ELSE CHOOSE t \in good : \A q \in good : t[1] >= q[1]
                 IN  IF good = {} THEN NoMatch ELSE pick[2]
            [] n.k = "rep" ->
                 LET again == Match(s,
                                 n.body \o <<[n EXCEPT !.lo = IF n.lo > 0 THEN n.lo - 1 ELSE 0,
                                                      !.hi = n.hi - 1]>> \o rest,
                                 pos, caps)
                     stop == Match(s, rest, pos, caps)
                 IN  IF n.lo > 0 THEN again
                     ELSE IF n.hi = 0 THEN stop
                     ELSE IF n.lazy
                          THEN (IF stop.ok THEN stop ELSE again)
                          ELSE (IF again.ok THEN again ELSE stop)
            [] n.k = "bol" -> IF pos = 1 THEN Match(s, rest, pos, caps) ELSE NoMatch
            [] n.k = "eol" ->
                 IF pos = Len(s) + 1 \/ (pos = Len(s) /\ Ch(s, pos) = "\n")
                 THEN Match(s, rest, pos, caps)
                 ELSE NoMatch
            [] n.k = "wordb" ->
                 IF IsWordAt(s, pos - 1) # IsWordAt(s, pos)
                 THEN Match(s, rest, pos, caps)
                 ELSE NoMatch
MatchAlt(s, alts, rest, pos, caps) ==
    IF Len(alts) = 0 THEN NoMatch
    ELSE Premier(Match(s, Head(alts) \o rest, pos, caps),
                 MatchAlt(s, Tail(alts), rest, pos, caps))

\* re.match(pattern, s)
ReMatch(pattern, s) == Match(s, pattern, 1, NoCaps)

\* re.search(pattern, s): the match at the leftmost position that has one;
\* the positions lo..hi are tried in order (by halves, to keep the evaluation
\* shallow)
RECURSIVE SearchIn(_, _, _, _)
SearchIn(pattern, s, lo, hi) ==
    IF lo = hi THEN Match(s, pattern, lo, NoCaps)
    ELSE Premier(SearchIn(pattern, s, lo, (lo + hi) \div 2),
                 SearchIn(pattern, s, (lo + hi) \div 2 + 1, hi))
ReSearch(pattern, s) == SearchIn(pattern, s, 1, Len(s) + 1)

\* m.group(id); None is modelled by HasGroup(m, id) = FALSE
HasGroup(m, id) == m.caps[id] # <<0, 0>>
Group(s, m, id) == SubSeq(s, m.caps[id][1], m.caps[id][2] - 1)


(***************************************************************************)
(* src/app.py: AnalyseurFacturesPro                                        *)
(***************************************************************************)

\* the registry of detecter_fournisseur, in the order of the dict
fournisseurs ==
    << [nom |-> "Fougères Boissons", patterns |-> <<"FOUGERES BOISSONS", "VTE-20", "LANDE DU BAS">>],
       [nom |-> "Metro", patterns |-> <<"METRO.FR", "METRO FRANCE", "N° FACTURE">>],
       [nom |-> "Promocash", patterns |-> <<"PROMOCASH", "PROMO CASH">>],
       [nom |-> "Cave Les 3B", patterns |-> <<"CAVE LES 3B", "SOMMELIERS-CAVISTES", "F99">>],
       [nom |-> "TerreAzur", patterns |-> <<"TERREAZUR", "TERRE AZUR", "POMONA">>],
       [nom |-> "EpiSaveurs", patterns |-> <<"EPISAVEURS", "EPI SAVEURS">>],
       [nom |-> "Colin RHD", patterns |-> <<"COLIN RHD", "TOQUE D'AZUR">>],
       [nom |-> "Passionfroid", patterns |-> <<"PASSIONFROID", "PASSION FROID">>],
       [nom |-> "SVA Jean Roze", patterns |-> <<"SVA JEAN ROZE", "JEAN ROZE", "SVA">>] >>

AutreFournisseur == "Autre fournisseur"

\* detecter_boucle walking the registry from its end: of the profiles that
\* match, the one registered last wins (a variant, to show what C6 rests on)
RECURSIVE detecter_dernier(_, _)
detecter_dernier(texte_upper, k) ==
    IF k > Len(fournisseurs) THEN AutreFournisseur
    ELSE IF \E j \in 1..Len(fournisseurs[Len(fournisseurs) + 1 - k].patterns) :
                 Contains(fournisseurs[Len(fournisseurs) + 1 - k].patterns[j], texte_upper)
         THEN fournisseurs[Len(fournisseurs) + 1 - k].nom
         ELSE detecter_dernier(texte_upper, k + 1)

\* for fournisseur, patterns in fournisseurs.items(): for pattern in patterns:
\*     if pattern in texte_upper: return fournisseur
RECURSIVE detecter_boucle(_, _)
detecter_boucle(texte_upper, k) ==
    IF k > Len(fournisseurs) THEN AutreFournisseur
    ELSE IF \E j \in 1..Len(fournisseurs[k].patterns) :
                 Contains(fournisseurs[k].patterns[j], texte_upper)
         THEN fournisseurs[k].nom
         ELSE detecter_boucle(texte_upper, k + 1)

detecter_fournisseur(texte) == detecter_boucle(Upper(texte), 1)

\* \d+(?:[,\.]\d+)?
Nombre == <<Plus(<<D>>), Opt(<<Set({",", "."}), Plus(<<D>>)>>)>>
\* (CL|ML|L|KG|G)
UniteVol(id) == Grp(id, <<Alt(<<Word("CL"), Word("ML"), Word("L"), Word("KG"), Word("G")>>)>>)

\* the patterns of extraire_contenance_avancee, in the order of the list
\* (\d+)\s*[X×]\s*(\d+(?:[,\.]\d+)?)\s*(CL|ML|L|KG|G)
PAT_MULTIPLICATEUR ==
    <<Grp(1, <<Plus(<<D>>)>>), Star(<<S>>), Set({"X", "×"}), Star(<<S>>),
      Grp(2, Nombre), Star(<<S>>), UniteVol(3)>>
\* (\d+(?:[,\.]\d+)?)\s*(CL|ML|L|KG|G)\b
PAT_SIMPLE == <<Grp(1, Nombre), Star(<<S>>), UniteVol(2), WordB>>
\* (?:PACK\s+DE\s+)?(\d+)\s+(?:PACK|PC|UN|BTL|BTE)
PAT_PACK ==
    <<Opt(Word("PACK") \o <<Plus(<<S>>)>> \o Word("DE") \o <<Plus(<<S>>)>>),
      Grp(1, <<Plus(<<D>>)>>), Plus(<<S>>),
      Alt(<<Word("PACK"), Word("PC"), Word("UN"), Word("BTL"), Word("BTE")>>)>>
\* (?:CAR|CAISSE|CAI|FAR)\s*(\d+)
PAT_CARTON ==
    <<Alt(<<Word("CAR"), Word("CAISSE"), Word("CAI"), Word("FAR")>>), Star(<<S>>),
      Grp(1, <<Plus(<<D>>)>>)>>
\* (\d+)\s*(?:BOUTEILLE|BTL|BTE)
PAT_BOUTEILLE ==
    <<Grp(1, <<Plus(<<D>>)>>), Star(<<S>>),
      Alt(<<Word("BOUTEILLE"), Word("BTL"), Word("BTE")>>)>>
\* (\d+(?:[,\.]\d+)?)\s*(KG|G)
PAT_POIDS ==
    <<Grp(1, Nombre), Star(<<S>>), Grp(2, <<Alt(<<Word("KG"), Word("G")>>)>>)>>

\* float(g.replace(',', '.')) of a group that Nombre or \d+ matched: never raises
Val(g) == PyFloat(Replace(g, ",", ".")).v

Contenance(format, val, unite) == [format |-> format, val |-> val, unite |-> unite]
\* ContenanceDefaut as parse_volume has it, nothing and no unit (a variant,
\* to show what C18 rests on)
ContenanceNulle == Contenance("", RZero, "")

ContenanceDefaut == Contenance("1PC", RInt(1), "PC")

\* m.group(1) if the search found a match, else defaut
GroupeOu(m, s, defaut) == IF m.ok THEN Group(s, m, 1) ELSE defaut
\* int(m.group(1)) of digits if the search found a match, else defaut
EntierOu(m, s, defaut) == IF m.ok THEN PyInt(Group(s, m, 1)).v ELSE defaut

patterns_contenance ==
    <<PAT_MULTIPLICATEUR, PAT_SIMPLE, PAT_PACK, PAT_CARTON, PAT_BOUTEILLE, PAT_POIDS>>

\* formatter with the multiplier left out of the value of the first pattern
\* (a variant, to show what C17 rests on)
formatter_sans_multiplicateur(k, g1, g2, g3) ==
    CASE k = 1 -> Contenance(g1 \o "x" \o g2 \o g3, Val(g2), g3)
      [] k = 2 -> Contenance(g1 \o g2, Val(g1), g2)
      [] k = 3 -> Contenance(g1 \o "PC", Val(g1), "PC")
      [] k = 4 -> Contenance(g1 \o "PC", Val(g1), "PC")
      [] k = 5 -> Contenance(g1 \o "BTL", Val(g1), "BTL")
      [] k = 6 -> Contenance(g1 \o g2, Val(g1), g2)

\* the formatter of pattern k, given the groups of its match
formatter(k, g1, g2, g3) ==
    CASE k = 1 -> Contenance(g1 \o "x" \o g2 \o g3, RMul(Val(g1), Val(g2)), g3)
      [] k = 2 -> Contenance(g1 \o g2, Val(g1), g2)
      [] k = 3 -> Contenance(g1 \o "PC", Val(g1), "PC")
      [] k = 4 -> Contenance(g1 \o "PC", Val(g1), "PC")
      [] k = 5 -> Contenance(g1 \o "BTL", Val(g1), "BTL")
      [] k = 6 -> Contenance(g1 \o g2, Val(g1), g2)

\* for pattern, formatter in patterns: match = re.search(pattern, texte);
\* if match: return formatter(match)
RECURSIVE contenance_boucle(_, _)
RECURSIVE contenance_match(_, _, _)
contenance_boucle(texte, k) ==
    IF k > Len(patterns_contenance) THEN ContenanceDefaut
    ELSE contenance_match(texte, k, ReSearch(patterns_contenance[k], texte))
contenance_match(texte, k, match) ==
    IF match.ok
    THEN formatter(k, Group(texte, match, 1), Group(texte, match, 2), Group(texte, match, 3))
    ELSE contenance_boucle(texte, k + 1)

extraire_contenance_avancee(texte) ==
    IF texte = "" THEN ContenanceDefaut ELSE contenance_boucle(Upper(texte), 1)

\* convertir with the millilitres divided by 100, as the centilitres are
\* (a variant, to show what C19 rests on)
convertir_ml_comme_cl(quantite, c) ==
    LET volume_unitaire ==
            CASE c.unite = "CL" -> RDiv(c.val, RInt(100))
              [] c.unite = "ML" -> RDiv(c.val, RInt(100))
              [] c.unite = "L"  -> c.val
              [] c.unite = "G"  -> RDiv(c.val, RInt(1000))
              [] c.unite = "KG" -> c.val
              [] OTHER -> c.val
        unite_finale ==
            CASE c.unite \in {"CL", "ML", "L"} -> "L"
              [] c.unite \in {"G", "KG"} -> "KG"
              [] OTHER -> c.unite
    IN  [contenance_format |-> c.format,
         volume_unitaire |-> volume_unitaire,
         volume_total |-> RMul(RInt(quantite), volume_unitaire),
         unite |-> unite_finale]

\* app.py 88-117: the conversion of a contenance c to litres or kilograms;
\* quantite is an int, the volumes are floats
convertir(quantite, c) ==
    LET volume_unitaire ==
            CASE c.unite = "CL" -> RDiv(c.val, RInt(100))
              [] c.unite = "ML" -> RDiv(c.val, RInt(1000))
              [] c.unite = "L"  -> c.val
              [] c.unite = "G"  -> RDiv(c.val, RInt(1000))
              [] c.unite = "KG" -> c.val
              [] OTHER -> c.val
        unite_finale ==
            CASE c.unite \in {"CL", "ML", "L"} -> "L"
              [] c.unite \in {"G", "KG"} -> "KG"
              [] OTHER -> c.unite
    IN  [contenance_format |-> c.format,
         volume_unitaire |-> volume_unitaire,
         volume_total |-> RMul(RInt(quantite), volume_unitaire),
         unite |-> unite_finale]

calculer_volume_total(quantite, contenance_str) ==
    convertir(quantite, extraire_contenance_avancee(contenance_str))

\* categories_detaillees of determiner_categorie_avancee, in the order of the dict
categories_detaillees ==
    << [categorie |-> "Spiritueux", mots_cles |-> <<"gin", "whisky", "vodka", "rhum", "cognac", "armagnac", "get 27", "jack daniel", "jameson", "beefeater">>],
       [categorie |-> "Vins", mots_cles |-> <<"vin", "bordeaux", "bourgogne", "champagne", "crémant", "prosecco", "cava", "muscadet", "côtes">>],
       [categorie |-> "Bières", mots_cles |-> <<"bière", "beer", "lager", "ale", "ipa", "stout">>],
       [categorie |-> "Liqueurs & Apéritifs", mots_cles |-> <<"liqueur", "cassis", "lillet", "martini", "campari", "aperol", "pastis", "ricard">>],
       [categorie |-> "Boissons Soft", mots_cles |-> <<"coca", "pepsi", "limonade", "orangina", "schweppes", "perrier", "eau", "jus", "soda">>],
       [categorie |-> "Viande Rouge", mots_cles |-> <<"boeuf", "veau", "agneau", "mouton", "entrecôte", "filet", "côte", "bavette">>],
       [categorie |-> "Viande Blanche", mots_cles |-> <<"poulet", "dinde", "porc", "lapin", "canard">>],
       [categorie |-> "Poissons", mots_cles |-> <<"saumon", "bar", "dorade", "cabillaud", "lieu", "sole", "turbot">>],
       [categorie |-> "Fruits de Mer", mots_cles |-> <<"crevette", "homard", "huître", "moule", "coquille", "langoustine">>],
       [categorie |-> "Légumes Frais", mots_cles |-> <<"salade", "tomate", "carotte", "courgette", "aubergine", "poivron", "concombre">>],
       [categorie |-> "Féculents", mots_cles |-> <<"pomme de terre", "pâte", "riz", "semoule", "quinoa", "blé">>],
       [categorie |-> "Produits Laitiers", mots_cles |-> <<"lait", "crème", "beurre", "yaourt", "fromage", "comté", "camembert", "roquefort">>],
       [categorie |-> "Epicerie", mots_cles |-> <<"huile", "vinaigre", "sel", "poivre", "épice", "sauce", "moutarde", "mayonnaise">>],
       [categorie |-> "Desserts", mots_cles |-> <<"glace", "sorbet", "tarte", "gâteau", "chocolat", "bonbon">>] >>

\* categorie_boucle with the categories walked from the last to the first
\* (a variant, to show what C16 rests on)
RECURSIVE categorie_derniere(_, _)
categorie_derniere(designation_lower, k) ==
    LET n == Len(categories_detaillees) + 1 - k
    IN  IF k > Len(categories_detaillees) THEN "Autre"
        ELSE IF \E j \in 1..Len(categories_detaillees[n].mots_cles) :
                     Contains(categories_detaillees[n].mots_cles[j], designation_lower)
             THEN categories_detaillees[n].categorie
             ELSE categorie_derniere(designation_lower, k + 1)

RECURSIVE categorie_boucle(_, _)
categorie_boucle(designation_lower, k) ==
    IF k > Len(categories_detaillees) THEN "Autre"
    ELSE IF \E j \in 1..Len(categories_detaillees[k].mots_cles) :
                 Contains(categories_detaillees[k].mots_cles[j], designation_lower)
         THEN categories_detaillees[k].categorie
         ELSE categorie_boucle(designation_lower, k + 1)

\* determiner_categorie_avancee without designation.lower() (a variant, to
\* show what C15 rests on)
determiner_categorie_sans_lower(designation) ==
    IF designation = "" THEN "Autre" ELSE categorie_boucle(designation, 1)

determiner_categorie_avancee(designation) ==
    IF designation = "" THEN "Autre" ELSE categorie_boucle(Lower(designation), 1)


\* \d{2}/\d{2}/\d{4}
DateSlash ==
    <<Rep(<<D>>, 2, 2), Lit("/"), Rep(<<D>>, 2, 2), Lit("/"), Rep(<<D>>, 4, 4)>>
\* \d+[,\.]\d+
Decimal == <<Plus(<<D>>), Set({",", "."}), Plus(<<D>>)>>
\* \d+[,\.]\d{2}
Decimal2 == <<Plus(<<D>>), Set({",", "."}), Rep(<<D>>, 2, 2)>>

\* du\s+(\d{2}/\d{2}/\d{4})
FOUGERES_DATE == Word("du") \o <<Plus(<<S>>), Grp(1, DateSlash)>>
\* VTE-(\d+)
FOUGERES_NUM == Word("VTE-") \o <<Grp(1, <<Plus(<<D>>)>>)>>
\* ^\d{7}$
FOUGERES_CODE == <<Bol, Rep(<<D>>, 7, 7), Eol>>
\* ^\d+[,\.]\d{2,4}$
FOUGERES_PRIX == <<Bol, Plus(<<D>>), Set({",", "."}), Rep(<<D>>, 2, 4), Eol>>
\* ^(\d{7})\s+(.+?)(?:\s+(\d+)\s+)?(?:\w{2,3}\s+)?(\d+[,\.]\d+)\s+(\d+[,\.]\d+)?
FOUGERES_LIGNE ==
    <<Bol, Grp(1, <<Rep(<<D>>, 7, 7)>>), Plus(<<S>>), Grp(2, <<RepLazy(<<Dot>>, 1, Inf)>>),
      Opt(<<Plus(<<S>>), Grp(3, <<Plus(<<D>>)>>), Plus(<<S>>)>>),
      Opt(<<Rep(<<W>>, 2, 3), Plus(<<S>>)>>),
      Grp(4, Decimal), Plus(<<S>>), Opt(<<Grp(5, Decimal)>>)>>

\* The value of a call that may raise: Done(v), or Raise where an exception
\* leaves the call.  essais (not in the source) lists the strategies the call
\* ran, each with the number of products it appended.
Raise == [ok |-> FALSE]
Done(v, essais) == [ok |-> TRUE, v |-> v, essais |-> essais]
Essai(strategie, n) == [strategie |-> strategie, n |-> n]

\* Fiche without the test of the unit volume before the division (a variant,
\* to show what C30 rests on)
Fiche_sans_garde(date_facture, num_facture, fournisseur, code, designation, quantite, prix_unitaire, montant, prix_pour_volume, contenance_info) ==
    [Date_Facture |-> date_facture,
     N_Facture |-> num_facture,
     Fournisseur |-> fournisseur,
     Code_Article |-> code,
     Designation |-> designation,
     Categorie |-> determiner_categorie_avancee(designation),
     Contenance_Unitaire |-> contenance_info.contenance_format,
     Nb_Unites |-> quantite,
     Volume_Unitaire |-> contenance_info.volume_unitaire,
     Volume_Total |-> contenance_info.volume_total,
     Unite |-> contenance_info.unite,
     Prix_Unitaire_HT |-> prix_unitaire,
     Montant_HT |-> montant,
     Prix_Litre |-> RDiv(prix_pour_volume, contenance_info.volume_unitaire)]

\* the dict appended to produits ('Désignation Simplifiée' is left out), given
\* contenance_info = self.calculer_volume_total(quantite, designation)
Fiche(date_facture, num_facture, fournisseur, code, designation, quantite, prix_unitaire, montant, prix_pour_volume, contenance_info) ==
    [Date_Facture |-> date_facture,
     N_Facture |-> num_facture,
     Fournisseur |-> fournisseur,
     Code_Article |-> code,
     Designation |-> designation,
     Categorie |-> determiner_categorie_avancee(designation),
     Contenance_Unitaire |-> contenance_info.contenance_format,
     Nb_Unites |-> quantite,
     Volume_Unitaire |-> contenance_info.volume_unitaire,
     Volume_Total |-> contenance_info.volume_total,
     Unite |-> contenance_info.unite,
     Prix_Unitaire_HT |-> prix_unitaire,
     Montant_HT |-> montant,
     Prix_Litre |-> IF RLess(RZero, contenance_info.volume_unitaire)
                    THEN RDiv(prix_pour_volume, contenance_info.volume_unitaire)
                    ELSE RZero]
Produit(date_facture, num_facture, fournisseur, code, designation, quantite, prix_unitaire, montant, prix_pour_volume) ==
    Fiche(date_facture, num_facture, fournisseur, code, designation, quantite,
          prix_unitaire, montant, prix_pour_volume,
          calculer_volume_total(quantite, designation))

\* all rows of all tables, in order: for table in tables: for row in table
RECURSIVE ToutesLesLignes(_)
ToutesLesLignes(tables) ==
    IF Len(tables) = 0 THEN <<>> ELSE Head(tables) \o ToutesLesLignes(Tail(tables))

\* fougeres_cellule with the two assignments of app.py 153-156 exchanged: the
\* first price goes to montant (a variant, to show what C8 rests on)
fougeres_cellule_inverse(acc, cell_str, n) ==
    IF IsDigitStr(cell_str)
    THEN IF ~n.ok THEN Failed
         ELSE Ok(IF n.v < 1000 THEN [acc EXCEPT !.quantite = n.v] ELSE acc)
    ELSE IF ReMatch(FOUGERES_PRIX, cell_str).ok
    THEN Ok(IF acc.montant = RZero
            THEN [acc EXCEPT !.montant = Val(cell_str)]
            ELSE [acc EXCEPT !.prix_unitaire = Val(cell_str)])
    ELSE Ok(acc)

\* app.py 144-156: one cell of for i, cell in enumerate(row[2:], 2).  acc holds
\* quantite, prix_unitaire and montant; n is int(cell_str), which may raise on a
\* cell that isdigit() accepts.
fougeres_cellule(acc, cell_str, n) ==
    IF IsDigitStr(cell_str)
    THEN IF ~n.ok THEN Failed
         ELSE Ok(IF n.v < 1000 THEN [acc EXCEPT !.quantite = n.v] ELSE acc)
    ELSE IF ReMatch(FOUGERES_PRIX, cell_str).ok
    THEN Ok(IF acc.prix_unitaire = RZero
            THEN [acc EXCEPT !.prix_unitaire = Val(cell_str)]
            ELSE [acc EXCEPT !.montant = Val(cell_str)])
    ELSE Ok(acc)

\* the cells from i on; r is Ok(acc), or Failed once a cell has raised
RECURSIVE fougeres_cellules(_, _, _)
fougeres_cellules(row, i, r) ==
    IF i > Len(row) \/ ~r.ok THEN r
    ELSE fougeres_cellules(row, i + 1,
             IF row[i] = "" THEN r
             ELSE fougeres_cellule(r.v, Strip(row[i]), PyInt(Strip(row[i]))))

\* fougeres_produit with the total recomputed whenever it is further than 0.1
\* from prix_unitaire * quantite (a variant, to show what C9 rests on)
fougeres_produit_tolerance(row, date_facture, num_facture, produits, r) ==
    IF ~r.ok THEN Failed
    ELSE Ok(Append(produits,
               Produit(date_facture, num_facture, "Fougères Boissons", row[1],
                       row[2], r.v.quantite, r.v.prix_unitaire,
                       IF RLess(Rat(1, 10),
                                RAbs(RSub(r.v.montant,
                                          RMul(r.v.prix_unitaire, RInt(r.v.quantite)))))
                       THEN RMul(r.v.prix_unitaire, RInt(r.v.quantite))
                       ELSE r.v.montant,
                       r.v.prix_unitaire)))

\* app.py 158-180: the product of a row whose cells gave r
fougeres_produit(row, date_facture, num_facture, produits, r) ==
    IF ~r.ok THEN Failed
    ELSE Ok(Append(produits,
               Produit(date_facture, num_facture, "Fougères Boissons", row[1],
                       row[2], r.v.quantite, r.v.prix_unitaire,
                       IF r.v.montant = RZero /\ RLess(RZero, r.v.prix_unitaire)
                       THEN RMul(r.v.prix_unitaire, RInt(r.v.quantite))
                       ELSE r.v.montant,
                       r.v.prix_unitaire)))

\* app.py 133-180: one row of a table; the products so far, or Failed
fougeres_row(row, date_facture, num_facture, produits) ==
    IF Len(row) >= 5 /\ row[1] # "" /\ ReMatch(FOUGERES_CODE, row[1]).ok
    THEN fougeres_produit(row, date_facture, num_facture, produits,
             fougeres_cellules(row, 3,
                 Ok([quantite |-> 1, prix_unitaire |-> RZero, montant |-> RZero])))
    ELSE Ok(produits)

\* the rows in order; r is Ok(produits), or Failed once a row has raised
RECURSIVE fougeres_tables(_, _, _, _)
fougeres_tables(rows, date_facture, num_facture, r) ==
    IF Len(rows) = 0 \/ ~r.ok THEN r
    ELSE fougeres_tables(Tail(rows), date_facture, num_facture,
             fougeres_row(Head(rows), date_facture, num_facture, r.v))

\* fougeres_match with a line passed over when a product already has its
\* code (a variant, to show what C23 rests on)
fougeres_match_sans_doublon(ligne, match, date_facture, num_facture, produits) ==
    LET g(i) == Group(ligne, match, i)
        quantite == IF HasGroup(match, 3) THEN PyInt(g(3)).v ELSE 1
        prix_unitaire == Val(g(4))
    IN  IF match.ok /\ \A j \in 1..Len(produits) : produits[j].Code_Article # g(1)
        THEN Append(produits,
                 Produit(date_facture, num_facture, "Fougères Boissons", g(1),
                         Strip(g(2)), quantite, prix_unitaire,
                         IF HasGroup(match, 5) THEN Val(g(5))
                         ELSE RMul(prix_unitaire, RInt(quantite)),
                         prix_unitaire))
        ELSE produits

\* app.py 187-213: the product of a line that the pattern matched
fougeres_match(ligne, match, date_facture, num_facture, produits) ==
    LET g(i) == Group(ligne, match, i)
        quantite == IF HasGroup(match, 3) THEN PyInt(g(3)).v ELSE 1
        prix_unitaire == Val(g(4))
    IN  IF match.ok
        THEN Append(produits,
                 Produit(date_facture, num_facture, "Fougères Boissons", g(1),
                         Strip(g(2)), quantite, prix_unitaire,
                         IF HasGroup(match, 5) THEN Val(g(5))
                         ELSE RMul(prix_unitaire, RInt(quantite)),
                         prix_unitaire))
        ELSE produits

\* app.py 185-213: one line of the text
fougeres_ligne(ligne, date_facture, num_facture, produits) ==
    fougeres_match(ligne, ReMatch(FOUGERES_LIGNE, ligne), date_facture, num_facture,
                   produits)

RECURSIVE fougeres_texte(_, _, _, _)
fougeres_texte(lignes, date_facture, num_facture, produits) ==
    IF Len(lignes) = 0 THEN produits
    ELSE fougeres_texte(Tail(lignes), date_facture, num_facture,
             fougeres_ligne(Head(lignes), date_facture, num_facture, produits))

\* fougeres_cascade with the text parsed whatever the tables gave and its
\* products added to theirs (a variant, to show what C21 rests on)
fougeres_cascade_melange(s1, s2) ==
    IF ~s1.ok THEN Raise
    ELSE Done(s1.v \o s2, <<Essai("tables", Len(s1.v)), Essai("texte", Len(s2))>>)

\* fougeres_cascade with a threshold of three products instead of "if not
\* produits" (a variant, to show what C3 rests on)
fougeres_cascade_seuil(s1, s2) ==
    IF ~s1.ok THEN Raise
    ELSE IF Len(s1.v) < 3
         THEN Done(s2, <<Essai("tables", Len(s1.v)), Essai("texte", Len(s2))>>)
         ELSE Done(s1.v, <<Essai("tables", Len(s1.v))>>)

\* app.py 182-183: "if not produits" decides whether the text is parsed; s1
\* is what the tables gave, s2 what the text gives
fougeres_cascade(s1, s2) ==
    IF ~s1.ok THEN Raise
    ELSE IF Len(s1.v) = 0
         THEN Done(s2, <<Essai("tables", 0), Essai("texte", Len(s2))>>)
         ELSE Done(s1.v, <<Essai("tables", Len(s1.v))>>)

\* app.py 129-213: the two strategies, given the metadata
fougeres_strategies(texte, tables, date_facture, num_facture) ==
    fougeres_cascade(
        \* Stratégie 1: Utiliser les tables si disponibles
        fougeres_tables(ToutesLesLignes(tables), date_facture, num_facture, Ok(<<>>)),
        \* Stratégie 2: Parser le texte ligne par ligne
        fougeres_texte(SplitLines(texte), date_facture, num_facture, <<>>))

\* now is the clock read by datetime.now(): [date, minute]
\* app.py 126-127: f"VTE-{num_match.group(1)}" if num_match else "N/A"
fougeres_num(num_match, texte) ==
    IF num_match.ok THEN "VTE-" \o Group(texte, num_match, 1) ELSE "N/A"

analyser_fougeres_avance(texte, tables, now) ==
    fougeres_strategies(texte, tables,
        GroupeOu(ReSearch(FOUGERES_DATE, texte), texte, now.date),
        fougeres_num(ReSearch(FOUGERES_NUM, texte), texte))

\* Date facture\s*:\s*(\d{2}-\d{2}-\d{4})
METRO_DATE ==
    Word("Date facture") \o
    <<Star(<<S>>), Lit(":"), Star(<<S>>),
      Grp(1, <<Rep(<<D>>, 2, 2), Lit("-"), Rep(<<D>>, 2, 2), Lit("-"), Rep(<<D>>, 4, 4)>>)>>
\* (\d{2}/\d{2}/\d{4})
METRO_DATE2 == <<Grp(1, DateSlash)>>
\* (?:N°\s*FACTURE|FACTURE N°).*?(\d{8,})
METRO_NUM ==
    <<Alt(<<Word("N°") \o <<Star(<<S>>)>> \o Word("FACTURE"), Word("FACTURE N°")>>),
      RepLazy(<<Dot>>, 0, Inf), Grp(1, <<Rep(<<D>>, 8, Inf)>>)>>
\* the three patterns of a line, in the order of the list
\* ^(\d{10,13})\s+(\d{6,})\s+(.+?)\s+(\d+[,\.]\d{2})      Format standard
\* ^(\d{10,13})\s+(.+?)\s+(\d+[,\.]\d{2})\s+(\d+)          Format alternatif
\* ^(\d{6,})\s+(.+?)\s+(\d+)\s+(\d+[,\.]\d{2})             Format court
METRO_LIGNES ==
    << <<Bol, Grp(1, <<Rep(<<D>>, 10, 13)>>), Plus(<<S>>), Grp(2, <<Rep(<<D>>, 6, Inf)>>),
         Plus(<<S>>), Grp(3, <<RepLazy(<<Dot>>, 1, Inf)>>), Plus(<<S>>), Grp(4, Decimal2)>>,
       <<Bol, Grp(1, <<Rep(<<D>>, 10, 13)>>), Plus(<<S>>), Grp(2, <<RepLazy(<<Dot>>, 1, Inf)>>),
         Plus(<<S>>), Grp(3, Decimal2), Plus(<<S>>), Grp(4, <<Plus(<<D>>)>>)>>,
       <<Bol, Grp(1, <<Rep(<<D>>, 6, Inf)>>), Plus(<<S>>), Grp(2, <<RepLazy(<<Dot>>, 1, Inf)>>),
         Plus(<<S>>), Grp(3, <<Plus(<<D>>)>>), Plus(<<S>>), Grp(4, Decimal2)>> >>
\* ^\d{6,}$
METRO_ARTICLE == <<Bol, Rep(<<D>>, 6, Inf), Eol>>
\* (\d+)\s*(?:PC|UN|X)
METRO_QUANTITE ==
    <<Grp(1, <<Plus(<<D>>)>>), Star(<<S>>), Alt(<<Word("PC"), Word("UN"), Word("X")>>)>>

\* PrixParUnite without the division (a variant, to show what C10 rests on)
PrixParUnite_sans_division(prix, quantite) == prix

\* 'Prix Unitaire HT': prix / quantite if quantite > 0 else prix
PrixParUnite(prix, quantite) ==
    IF quantite > 0 THEN RDiv(prix, RInt(quantite)) ELSE prix

\* app.py 264-281: the product, given the quantity read in the designation
metro_fiche(code, designation, prix, quantite, date_facture, num_facture, fournisseur) ==
    Produit(date_facture, num_facture, fournisseur, code, designation, quantite,
            PrixParUnite(prix, quantite), prix,
            IF quantite > 0 THEN RDiv(prix, RInt(quantite)) ELSE RZero)

\* app.py 243-263: groups = match.groups(); article is whether groups[1] is
\* an article number.  Every pattern has four groups, so the branch
\* len(groups) != 4 is never taken.  float() is given groups[3] or groups[2]:
\* digits with one separator, so it does not raise.
metro_produit(groups, article, date_facture, num_facture, fournisseur) ==
    LET designation == IF article THEN groups[3] ELSE groups[2]
    IN  metro_fiche(groups[1], designation,
                    IF article THEN Val(groups[4]) ELSE Val(groups[3]),
                    EntierOu(ReSearch(METRO_QUANTITE, designation), designation, 1),
                    date_facture, num_facture, fournisseur)

\* app.py 240-283: for pattern in patterns: match = re.match(pattern, ligne);
\* if match: ...; break
RECURSIVE metro_ligne(_, _, _, _, _, _)
RECURSIVE metro_match(_, _, _, _, _, _, _)
metro_ligne(ligne, k, date_facture, num_facture, fournisseur, produits) ==
    IF k > Len(METRO_LIGNES) THEN produits
    ELSE metro_match(ligne, k, ReMatch(METRO_LIGNES[k], ligne), date_facture,
                     num_facture, fournisseur, produits)
metro_match(ligne, k, match, date_facture, num_facture, fournisseur, produits) ==
    IF match.ok
    THEN Append(produits,
             metro_produit([j \in 1..4 |-> Group(ligne, match, j)],
                           ReMatch(METRO_ARTICLE, Group(ligne, match, 2)).ok,
                           date_facture, num_facture, fournisseur))
    ELSE metro_ligne(ligne, k + 1, date_facture, num_facture, fournisseur, produits)

RECURSIVE metro_texte(_, _, _, _, _)
metro_texte(lignes, date_facture, num_facture, fournisseur, produits) ==
    IF Len(lignes) = 0 THEN produits
    ELSE metro_texte(Tail(lignes), date_facture, num_facture, fournisseur,
             metro_ligne(Head(lignes), 1, date_facture, num_facture, fournisseur, produits))

\* app.py 221-224: the first of the two date patterns found, '-' replaced by '/'
metro_date(m1, m2, texte, now) ==
    IF m1.ok THEN Replace(Group(texte, m1, 1), "-", "/")
    ELSE IF m2.ok THEN Replace(Group(texte, m2, 1), "-", "/")
    ELSE now.date

\* app.py 230-285: the lines of the text, given the metadata
metro_produits(produits) == Done(produits, <<Essai("texte", Len(produits))>>)

analyser_metro_avance(texte, tables, now) ==
    metro_produits(
        metro_texte(SplitLines(texte),
            metro_date(ReSearch(METRO_DATE, texte), ReSearch(METRO_DATE2, texte), texte, now),
            GroupeOu(ReSearch(METRO_NUM, texte), texte, "N/A"),
            detecter_fournisseur(texte), <<>>))

\* \d{2}[/-]\d{2}[/-]\d{4}
DateSlashTiret ==
    <<Rep(<<D>>, 2, 2), Set({"/", "-"}), Rep(<<D>>, 2, 2), Set({"/", "-"}), Rep(<<D>>, 4, 4)>>
\* date_patterns of analyser_universel, searched with re.IGNORECASE
\* (?:du|le|Date)\s+(\d{2}[/-]\d{2}[/-]\d{4})
\* (\d{2}[/-]\d{2}[/-]\d{4})
\* (\d{2}\.\d{2}\.\d{4})
date_patterns ==
    << <<Alt(<<WordI("du"), WordI("le"), WordI("Date")>>), Plus(<<S>>), Grp(1, DateSlashTiret)>>,
       <<Grp(1, DateSlashTiret)>>,
       <<Grp(1, <<Rep(<<D>>, 2, 2), Lit("."), Rep(<<D>>, 2, 2), Lit("."), Rep(<<D>>, 4, 4)>>)>> >>
\* num_patterns of analyser_universel
\* (?:FACTURE|N°|NUM)\s*(?:N°)?\s*[:=]?\s*([A-Z0-9\-]+)
\* ([A-Z]{1,3}\d{6,})
\* (\d{8,})
num_patterns ==
    << <<Alt(<<Word("FACTURE"), Word("N°"), Word("NUM")>>), Star(<<S>>), Opt(Word("N°")),
         Star(<<S>>), Opt(<<Set({":", "="})>>), Star(<<S>>),
         Grp(1, <<Plus(<<Set(UpperLetters \cup Digits \cup {"-"})>>)>>)>>,
       <<Grp(1, <<Rep(<<Set(UpperLetters)>>, 1, 3), Rep(<<D>>, 6, Inf)>>)>>,
       <<Grp(1, <<Rep(<<D>>, 8, Inf)>>)>> >>
\* ^\d{3,}
UNIVERSEL_CODE == <<Bol, Rep(<<D>>, 3, Inf)>>
\* ^[\d,\.]+$
UNIVERSEL_NUMERIQUE == <<Bol, Plus(<<Set(Digits \cup {",", "."})>>), Eol>>
\* ^\d+[,\.]\d{2}$
UNIVERSEL_PRIX == <<Bol>> \o Decimal2 \o <<Eol>>
\* ^(?:(\d{3,})\s+)?(.+?)\s+(\d{1,3})\s+(\d+[,\.]\d{2})
UNIVERSEL_LIGNE ==
    <<Bol, Opt(<<Grp(1, <<Rep(<<D>>, 3, Inf)>>), Plus(<<S>>)>>),
      Grp(2, <<RepLazy(<<Dot>>, 1, Inf)>>), Plus(<<S>>), Grp(3, <<Rep(<<D>>, 1, 3)>>),
      Plus(<<S>>), Grp(4, Decimal2)>>

\* the first pattern of the list found in texte gives group 1; "" when none is
RECURSIVE premier_motif(_, _, _)
premier_motif(patterns, k, texte) ==
    IF k > Len(patterns) THEN ""
    ELSE GroupeOu(ReSearch(patterns[k], texte), texte, premier_motif(patterns, k + 1, texte))

\* app.py 336-352: one cell of for i, cell in enumerate(row).  acc holds
\* designation, prix, quantite and code; designation "" and prix RZero stand
\* for None (both are falsy in "if designation and prix"); n is int(cell_str).
universel_cellule(i, acc, cell_str, n) ==
    IF i = 1 /\ ReMatch(UNIVERSEL_CODE, cell_str).ok
    THEN Ok([acc EXCEPT !.code = cell_str])
    ELSE IF ~ReMatch(UNIVERSEL_NUMERIQUE, cell_str).ok /\ Len(cell_str) > 3
    THEN Ok(IF acc.designation = "" \/ Len(cell_str) > Len(acc.designation)
            THEN [acc EXCEPT !.designation = cell_str]
            ELSE acc)
    ELSE IF ReMatch(UNIVERSEL_PRIX, cell_str).ok
    THEN Ok([acc EXCEPT !.prix = Val(cell_str)])
    ELSE IF IsDigitStr(cell_str)
    THEN IF ~n.ok THEN Failed
         ELSE Ok(IF n.v < 100 THEN [acc EXCEPT !.quantite = n.v] ELSE acc)
    ELSE Ok(acc)

\* the cells from i on; r is Ok(acc), or Failed once a cell has raised
RECURSIVE universel_cellules(_, _, _)
universel_cellules(row, i, r) ==
    IF i > Len(row) \/ ~r.ok THEN r
    ELSE universel_cellules(row, i + 1,
             IF row[i] = "" THEN r
             ELSE universel_cellule(i, r.v, Strip(row[i]), PyInt(Strip(row[i]))))

\* universel_produit with a row passed over when its first cell gave no code
\* (a variant, to show what C25 rests on)
universel_produit_avec_code(date_facture, num_facture, fournisseur, produits, r) ==
    IF ~r.ok THEN Failed
    ELSE IF r.v.designation # "" /\ r.v.prix # RZero /\ r.v.code # ""
    THEN Ok(Append(produits,
               Produit(date_facture, num_facture, fournisseur, r.v.code,
                       r.v.designation, r.v.quantite,
                       PrixParUnite(r.v.prix, r.v.quantite), r.v.prix,
                       IF r.v.quantite > 0 THEN RDiv(r.v.prix, RInt(r.v.quantite))
                       ELSE RZero)))
    ELSE Ok(produits)

\* app.py 354-373: the product of a row whose cells gave r
universel_produit(date_facture, num_facture, fournisseur, produits, r) ==
    IF ~r.ok THEN Failed
    ELSE IF r.v.designation # "" /\ r.v.prix # RZero
    THEN Ok(Append(produits,
               Produit(date_facture, num_facture, fournisseur, r.v.code,
                       r.v.designation, r.v.quantite,
                       PrixParUnite(r.v.prix, r.v.quantite), r.v.prix,
                       IF r.v.quantite > 0 THEN RDiv(r.v.prix, RInt(r.v.quantite))
                       ELSE RZero)))
    ELSE Ok(produits)

\* app.py 329-373: one row of a table
universel_row(row, date_facture, num_facture, fournisseur, produits) ==
    IF Len(row) >= 3
    THEN universel_produit(date_facture, num_facture, fournisseur, produits,
             universel_cellules(row, 1,
                 Ok([designation |-> "", prix |-> RZero, quantite |-> 1, code |-> ""])))
    ELSE Ok(produits)

\* the rows in order; r is Ok(produits), or Failed once a row has raised
RECURSIVE universel_tables(_, _, _, _, _)
universel_tables(rows, date_facture, num_facture, fournisseur, r) ==
    IF Len(rows) = 0 \/ ~r.ok THEN r
    ELSE universel_tables(Tail(rows), date_facture, num_facture, fournisseur,
             universel_row(Head(rows), date_facture, num_facture, fournisseur, r.v))

\* app.py 382-406: the product of a line that the pattern matched
universel_match(ligne, match, date_facture, num_facture, fournisseur, produits) ==
    LET quantite == PyInt(Group(ligne, match, 3)).v
        prix == Val(Group(ligne, match, 4))
    IN  IF match.ok
        THEN Append(produits,
                 Produit(date_facture, num_facture, fournisseur,
                         IF HasGroup(match, 1) THEN Group(ligne, match, 1) ELSE "",
                         Strip(Group(ligne, match, 2)),
                         quantite, PrixParUnite(prix, quantite), prix,
                         IF quantite > 0 THEN RDiv(prix, RInt(quantite)) ELSE RZero))
        ELSE produits

\* app.py 378-406: one line of the text
universel_ligne(ligne, date_facture, num_facture, fournisseur, produits) ==
    universel_match(ligne, ReMatch(UNIVERSEL_LIGNE, ligne), date_facture, num_facture,
                    fournisseur, produits)

RECURSIVE universel_texte(_, _, _, _, _)
universel_texte(lignes, date_facture, num_facture, fournisseur, produits) ==
    IF Len(lignes) = 0 THEN produits
    ELSE universel_texte(Tail(lignes), date_facture, num_facture, fournisseur,
             universel_ligne(Head(lignes), date_facture, num_facture, fournisseur, produits))

\* app.py 375-376: "if not produits" decides whether the text is parsed; s1
\* is what the tables gave, s2 what the text gives
universel_cascade(s1, s2) ==
    IF ~s1.ok THEN Raise
    ELSE IF Len(s1.v) = 0
         THEN Done(s2, <<Essai("tables", 0), Essai("texte", Len(s2))>>)
         ELSE Done(s1.v, <<Essai("tables", Len(s1.v))>>)

\* app.py 325-406: the two strategies, given the metadata
universel_strategies(texte, tables, fournisseur, date_facture, num_facture) ==
    universel_cascade(
        \* Stratégie 1: Utiliser les tables
        universel_tables(ToutesLesLignes(tables), date_facture, num_facture, fournisseur,
                         Ok(<<>>)),
        \* Stratégie 2: Parser le texte avec des patterns génériques
        universel_texte(SplitLines(texte), date_facture, num_facture, fournisseur, <<>>))

\* app.py 302-323: d and n are the date and the number found, "" for None
universel_date(d, now) ==
    IF d # "" THEN Replace(Replace(d, "-", "/"), ".", "/") ELSE now.date
universel_num(n, now) == IF n # "" THEN n ELSE "AUTO_" \o now.minute

analyser_universel(texte, tables, fournisseur, now) ==
    universel_strategies(texte, tables, fournisseur,
        universel_date(premier_motif(date_patterns, 1, texte), now),
        universel_num(premier_motif(num_patterns, 1, texte), now))

\* (?:TOTAL|NET|TTC).*?([\d\s]+[,\.]\d{2}), searched with re.IGNORECASE
MONTANT_TOTAL ==
    <<Alt(<<WordI("TOTAL"), WordI("NET"), WordI("TTC")>>), RepLazy(<<Dot>>, 0, Inf),
      Grp(1, <<Plus(<<Set(Digits \cup Spaces)>>), Set({",", "."}), Rep(<<D>>, 2, 2)>>)>>

\* app.py 469-476: the text of the pages, each followed by a line feed, and
\* the tables of the pages.  A page without text has texte "".
RECURSIVE texte_des_pages(_)
texte_des_pages(pages) ==
    IF Len(pages) = 0 THEN ""
    ELSE (IF Head(pages).texte # "" THEN Head(pages).texte \o "\n" ELSE "")
         \o texte_des_pages(Tail(pages))
RECURSIVE tables_des_pages(_)
tables_des_pages(pages) ==
    IF Len(pages) = 0 THEN <<>> ELSE Head(pages).tables \o tables_des_pages(Tail(pages))

\* appliquer_strategie with analyser_universel run next when the analyser of
\* a Fougères, Metro or Promocash document has returned nothing (a variant,
\* to show what C22 rests on)
appliquer_strategie_puis_generique(fournisseur, texte_complet, tables_completes, now) ==
    LET r == IF fournisseur = "Fougères Boissons"
             THEN analyser_fougeres_avance(texte_complet, tables_completes, now)
             ELSE IF fournisseur \in {"Metro", "Promocash"}
             THEN analyser_metro_avance(texte_complet, tables_completes, now)
             ELSE analyser_universel(texte_complet, tables_completes, fournisseur, now)
        u == analyser_universel(texte_complet, tables_completes, fournisseur, now)
    IN  IF fournisseur \in {"Fougères Boissons", "Metro", "Promocash"} /\ r.ok /\ Len(r.v) = 0
        THEN (IF u.ok THEN Done(u.v, r.essais \o u.essais) ELSE Raise)
        ELSE r

\* app.py 482-487
appliquer_strategie(fournisseur, texte_complet, tables_completes, now) ==
    IF fournisseur = "Fougères Boissons"
    THEN analyser_fougeres_avance(texte_complet, tables_completes, now)
    ELSE IF fournisseur \in {"Metro", "Promocash"}
    THEN analyser_metro_avance(texte_complet, tables_completes, now)
    ELSE analyser_universel(texte_complet, tables_completes, fournisseur, now)

\* enrichir without the name of the file (a variant, to show what C14 rests on)
enrichir_sans_fichier(produit, nom_fichier) ==
    [Date_Facture |-> produit.Date_Facture,
     N_Facture |-> produit.N_Facture,
     Fournisseur |-> produit.Fournisseur,
     Code_Article |-> produit.Code_Article,
     Designation |-> produit.Designation,
     Categorie |-> produit.Categorie,
     Contenance_Unitaire |-> produit.Contenance_Unitaire,
     Nb_Unites |-> produit.Nb_Unites,
     Volume_Unitaire |-> produit.Volume_Unitaire,
     Volume_Total |-> produit.Volume_Total,
     Unite |-> produit.Unite,
     Prix_Unitaire_HT |-> produit.Prix_Unitaire_HT,
     Montant_HT |-> produit.Montant_HT,
     Prix_Litre |-> produit.Prix_Litre,
     Fichier_Source |-> "",
     Cout_par_unite_de_volume |->
         IF RLess(RZero, produit.Volume_Total)
         THEN RDiv(produit.Montant_HT, produit.Volume_Total)
         ELSE RZero]

\* app.py 490-497
enrichir(produit, nom_fichier) ==
    [Date_Facture |-> produit.Date_Facture,
     N_Facture |-> produit.N_Facture,
     Fournisseur |-> produit.Fournisseur,
     Code_Article |-> produit.Code_Article,
     Designation |-> produit.Designation,
     Categorie |-> produit.Categorie,
     Contenance_Unitaire |-> produit.Contenance_Unitaire,
     Nb_Unites |-> produit.Nb_Unites,
     Volume_Unitaire |-> produit.Volume_Unitaire,
     Volume_Total |-> produit.Volume_Total,
     Unite |-> produit.Unite,
     Prix_Unitaire_HT |-> produit.Prix_Unitaire_HT,
     Montant_HT |-> produit.Montant_HT,
     Prix_Litre |-> produit.Prix_Litre,
     Fichier_Source |-> nom_fichier,
     Cout_par_unite_de_volume |->
         IF RLess(RZero, produit.Volume_Total)
         THEN RDiv(produit.Montant_HT, produit.Volume_Total)
         ELSE RZero]

\* total_facture with the minute of the clock in the number of the invoice,
\* as analyser_universel numbers an invoice without a number (a variant, to
\* show what C12 rests on)
total_facture_horodate(montant, fournisseur, nom_fichier, now) ==
    [Date_Facture |-> now.date,
     N_Facture |-> "EXTRACTION_" \o now.minute,
     Fournisseur |-> fournisseur,
     Code_Article |-> "",
     Designation |-> "Montant total facture - " \o fournisseur,
     Categorie |-> "Autre",
     Contenance_Unitaire |-> "1PC",
     Nb_Unites |-> 1,
     Volume_Unitaire |-> RInt(1),
     Volume_Total |-> RInt(1),
     Unite |-> "PC",
     Prix_Unitaire_HT |-> montant,
     Montant_HT |-> montant,
     Prix_Litre |-> RZero,
     Fichier_Source |-> nom_fichier,
     Cout_par_unite_de_volume |-> RZero]

\* app.py 508-526: the record of the total alone
total_facture(montant, fournisseur, nom_fichier, now) ==
    [Date_Facture |-> now.date,
     N_Facture |-> "EXTRACTION_BASIQUE",
     Fournisseur |-> fournisseur,
     Code_Article |-> "",
     Designation |-> "Montant total facture - " \o fournisseur,
     Categorie |-> "Autre",
     Contenance_Unitaire |-> "1PC",
     Nb_Unites |-> 1,
     Volume_Unitaire |-> RInt(1),
     Volume_Total |-> RInt(1),
     Unite |-> "PC",
     Prix_Unitaire_HT |-> montant,
     Montant_HT |-> montant,
     Prix_Litre |-> RZero,
     Fichier_Source |-> nom_fichier,
     Cout_par_unite_de_volume |-> RZero]

\* app.py 490-497, for produit in produits
RECURSIVE enrichir_tous(_, _)
enrichir_tous(produits, nom_fichier) ==
    IF Len(produits) = 0 THEN <<>>
    ELSE <<enrichir(Head(produits), nom_fichier)>> \o enrichir_tous(Tail(produits), nom_fichier)

\* what analyser_pdf gives its caller: the list returned, what it displayed
\* with st.warning and st.error, whether an exception left it, and (not in
\* the source) the supplier detected and the strategies run
Retour(produits, affiche, fournisseur, essais) ==
    [produits |-> produits, affiche |-> affiche, exception |-> FALSE,
     fournisseur |-> fournisseur, essais |-> essais]

\* except_Exception with the exception raised again after st.error (a variant,
\* to show what C5 rests on)
except_Exception_relance(affiche, fournisseur, essais) ==
    [produits |-> <<>>, affiche |-> Append(affiche, "error"), exception |-> TRUE,
     fournisseur |-> fournisseur, essais |-> essais]

\* app.py 528-531: except Exception: st.error(...); return tous_les_produits,
\* which is still empty wherever the try block can raise
except_Exception(affiche, fournisseur, essais) ==
    Retour(<<>>, Append(affiche, "error"), fournisseur, essais)

\* app.py 501-526: the extraction of the total alone, after st.warning
extraction_de_secours(montant_match, texte_complet, fournisseur, nom_fichier, now, essais) ==
    LET montant == PyFloat(Replace(Replace(Group(texte_complet, montant_match, 1),
                                           " ", ""), ",", "."))
    IN  IF ~montant_match.ok THEN Retour(<<>>, <<"warning">>, fournisseur, essais)
        ELSE IF ~montant.ok THEN except_Exception(<<"warning">>, fournisseur, essais)
        ELSE Retour(<<total_facture(montant.v, fournisseur, nom_fichier, now)>>,
                    <<"warning">>, fournisseur, essais)

\* apres_strategie with the record of the total added after the products
\* whenever the text holds a total (a variant, to show what C27 rests on)
apres_strategie_total_toujours(r, texte_complet, fournisseur, nom_fichier, now) ==
    LET secours == extraction_de_secours(ReSearch(MONTANT_TOTAL, texte_complet),
                       texte_complet, fournisseur, nom_fichier, now, r.essais)
    IN  IF ~r.ok THEN except_Exception(<<>>, fournisseur, <<>>)
        ELSE IF Len(r.v) > 0
        THEN Retour(enrichir_tous(r.v, nom_fichier) \o secours.produits, <<>>,
                    fournisseur, r.essais)
        ELSE secours

\* app.py 489-526: r is what the strategy of the supplier gave
apres_strategie(r, texte_complet, fournisseur, nom_fichier, now) ==
    IF ~r.ok THEN except_Exception(<<>>, fournisseur, <<>>)
    ELSE IF Len(r.v) > 0
    THEN Retour(enrichir_tous(r.v, nom_fichier), <<>>, fournisseur, r.essais)
    ELSE extraction_de_secours(ReSearch(MONTANT_TOTAL, texte_complet), texte_complet,
                               fournisseur, nom_fichier, now, r.essais)

\* app.py 459-531.  fichier.lisible is whether pdfplumber.open and the
\* extraction of the pages succeed.
analyser_pdf(fichier, nom_fichier, now) ==
    IF ~fichier.lisible THEN except_Exception(<<>>, "", <<>>)
    ELSE
      LET texte_complet == texte_des_pages(fichier.pages)
          fournisseur == detecter_fournisseur(texte_complet)
      IN  apres_strategie(
              appliquer_strategie(fournisseur, texte_complet,
                                  tables_des_pages(fichier.pages), now),
              texte_complet, fournisseur, nom_fichier, now)

(***************************************************************************)
(* src/invoice_analyzer.py: InvoiceAnalyzer                                *)
(***************************************************************************)

\* \d{2}\.\d{2}\.\d{4} and \d{2}-\d{2}-\d{4}
DatePoint == <<Rep(<<D>>, 2, 2), Lit("."), Rep(<<D>>, 2, 2), Lit("."), Rep(<<D>>, 4, 4)>>
DateTiret == <<Rep(<<D>>, 2, 2), Lit("-"), Rep(<<D>>, 2, 2), Lit("-"), Rep(<<D>>, 4, 4)>>
\* [\d,\.]+ and [\d\s,\.]+
Chiffres == <<Plus(<<Set(Digits \cup {",", "."})>>)>>
ChiffresEspaces == <<Plus(<<Set(Digits \cup Spaces \cup {",", "."})>>)>>

\* FACTURE\s+N°\s*(\d+)
INVOICE_NUMBER_POMONA ==
    Word("FACTURE") \o <<Plus(<<S>>)>> \o Word("N°") \o <<Star(<<S>>), Grp(1, <<Plus(<<D>>)>>)>>
\* du\s+(\d{2}\.\d{2}\.\d{4})
DATE_POMONA == Word("du") \o <<Plus(<<S>>), Grp(1, DatePoint)>>
\* Net à payer\s*:\s*([\d\s,\.]+)\s*EUR
TOTAL_POMONA ==
    Word("Net à payer") \o <<Star(<<S>>), Lit(":"), Star(<<S>>), Grp(1, ChiffresEspaces),
                             Star(<<S>>)>> \o Word("EUR")
\* ^\d+/\s+(\d+)\s+(.*?)\s+(\d+[,\.]\d+)\s+ followed by the units of the supplier
LigneProduitPomona(unites) ==
    <<Bol, Plus(<<D>>), Lit("/"), Plus(<<S>>), Grp(1, <<Plus(<<D>>)>>), Plus(<<S>>),
      Grp(2, <<RepLazy(<<Dot>>, 0, Inf)>>), Plus(<<S>>), Grp(3, Decimal), Plus(<<S>>),
      Grp(4, <<Alt(unites)>>)>>

\* self.suppliers_patterns, in the order of the dict
suppliers_patterns ==
    << [supplier |-> "TERRE AZUR",
        identifier |-> <<"TERRE AZUR", "TA BRETAGNE", "terreazur.fr">>,
        invoice_number |-> INVOICE_NUMBER_POMONA,
        date |-> DATE_POMONA,
        product_line |-> LigneProduitPomona(<<Word("PCH"), Word("KG"), Word("COL"), Word("SAC"),
                                              Word("PU"), Word("FLT"), Word("BQT")>>),
        total |-> TOTAL_POMONA],
       [supplier |-> "METRO",
        identifier |-> <<"METRO", "METRO France">>,
        \* N°\s*FACTURE.*?(\d+/\d+)
        invoice_number |-> Word("N°") \o <<Star(<<S>>)>> \o Word("FACTURE") \o
                           <<RepLazy(<<Dot>>, 0, Inf),
                             Grp(1, <<Plus(<<D>>), Lit("/"), Plus(<<D>>)>>)>>,
        \* Date facture\s*:\s*(\d{2}-\d{2}-\d{4})
        date |-> Word("Date facture") \o
                 <<Star(<<S>>), Lit(":"), Star(<<S>>), Grp(1, DateTiret)>>,
        \* (\d{11})\s+(\d+)\s+(.*?)\s+(\d+[,\.]\d+)\s+(S|I|M)
        product_line |-> <<Grp(1, <<Rep(<<D>>, 11, 11)>>), Plus(<<S>>), Grp(2, <<Plus(<<D>>)>>),
                           Plus(<<S>>), Grp(3, <<RepLazy(<<Dot>>, 0, Inf)>>), Plus(<<S>>),
                           Grp(4, Decimal), Plus(<<S>>),
                           Grp(5, <<Alt(<<Word("S"), Word("I"), Word("M")>>)>>)>>,
        \* Total à payer\s*([\d\s,\.]+)
        total |-> Word("Total à payer") \o <<Star(<<S>>), Grp(1, ChiffresEspaces)>>],
       [supplier |-> "COLIN RHD",
        identifier |-> <<"Colin RHD", "COLIN RHD SAS", "colinrhd.com">>,
        \* FACTURE\s+(\w+)
        invoice_number |-> Word("FACTURE") \o <<Plus(<<S>>), Grp(1, <<Plus(<<W>>)>>)>>,
        \* Date.*?(\d{2}/\d{2}/\d{4})
        date |-> Word("Date") \o <<RepLazy(<<Dot>>, 0, Inf), Grp(1, DateSlash)>>,
        \* ^(T\d+)\s+(\d+)\s+(CAR|UN)\s+(.*?)\s+([\d,\.]+)\s+([\d,\.]+)
        product_line |-> <<Bol, Grp(1, <<Lit("T"), Plus(<<D>>)>>), Plus(<<S>>),
                           Grp(2, <<Plus(<<D>>)>>), Plus(<<S>>),
                           Grp(3, <<Alt(<<Word("CAR"), Word("UN")>>)>>), Plus(<<S>>),
                           Grp(4, <<RepLazy(<<Dot>>, 0, Inf)>>), Plus(<<S>>),
                           Grp(5, Chiffres), Plus(<<S>>), Grp(6, Chiffres)>>,
        \* NET À PAYER\s*:\s*\*+([\d,\.]+)
        total |-> Word("NET À PAYER") \o
                  <<Star(<<S>>), Lit(":"), Star(<<S>>), Plus(<<Lit("*")>>), Grp(1, Chiffres)>>],
       [supplier |-> "EPISAVEURS",
        identifier |-> <<"EpiSaveurs", "EPISAVEURS", "episaveurs">>,
        invoice_number |-> INVOICE_NUMBER_POMONA,
        date |-> DATE_POMONA,
        product_line |-> LigneProduitPomona(<<Word("BID"), Word("PCH"), Word("COL"), Word("BTL"),
                                              Word("SAC")>>),
        total |-> TOTAL_POMONA],
       [supplier |-> "PASSIONFROID",
        identifier |-> <<"PassionFroid", "PASSIONFROID", "passionfroid.fr">>,
        invoice_number |-> INVOICE_NUMBER_POMONA,
        date |-> DATE_POMONA,
        product_line |-> LigneProduitPomona(<<Word("COL"), Word("PU"), Word("KG")>>),
        total |-> TOTAL_POMONA],
       [supplier |-> "FOUGERES BOISSONS",
        identifier |-> <<"FOUGERES BOISSONS", "OUEST BOISSONS">>,
        \* FACTURE\s+(\w+-\d+)
        invoice_number |-> Word("FACTURE") \o
                           <<Plus(<<S>>), Grp(1, <<Plus(<<W>>), Lit("-"), Plus(<<D>>)>>)>>,
        \* du\s+(\d{2}/\d{2}/\d{4})
        date |-> Word("du") \o <<Plus(<<S>>), Grp(1, DateSlash)>>,
        \* (\d{7})\s+(.*?)\s+(\d+)\s+(BTL|CAR|CAI|FAR)\s+([\d,\.]+)
        product_line |-> <<Grp(1, <<Rep(<<D>>, 7, 7)>>), Plus(<<S>>),
                           Grp(2, <<RepLazy(<<Dot>>, 0, Inf)>>), Plus(<<S>>),
                           Grp(3, <<Plus(<<D>>)>>), Plus(<<S>>),
                           Grp(4, <<Alt(<<Word("BTL"), Word("CAR"), Word("CAI"), Word("FAR")>>)>>),
                           Plus(<<S>>), Grp(5, Chiffres)>>,
        \* Net facture\s*([\d\s,\.]+)\s*€
        total |-> Word("Net facture") \o
                  <<Star(<<S>>), Grp(1, ChiffresEspaces), Star(<<S>>), Lit("€")>>],
       [supplier |-> "CAVE LES 3B",
        identifier |-> <<"CAVE LES 3B", "sommeliers-cavistes">>,
        \* N°(\w+)
        invoice_number |-> Word("N°") \o <<Grp(1, <<Plus(<<W>>)>>)>>,
        \* Date document\s*:\s*(\d{2}/\d{2}/\d{4})
        date |-> Word("Date document") \o
                 <<Star(<<S>>), Lit(":"), Star(<<S>>), Grp(1, DateSlash)>>,
        \* ^([A-Z]+\d+)\s+(.*?)\s+([\d,\.]+)\s+([\d,\.]+)\s+([\d,\.]+)\s+(C\d+)
        product_line |-> <<Bol, Grp(1, <<Plus(<<Set(UpperLetters)>>), Plus(<<D>>)>>), Plus(<<S>>),
                           Grp(2, <<RepLazy(<<Dot>>, 0, Inf)>>), Plus(<<S>>),
                           Grp(3, Chiffres), Plus(<<S>>), Grp(4, Chiffres), Plus(<<S>>),
                           Grp(5, Chiffres), Plus(<<S>>),
                           Grp(6, <<Lit("C"), Plus(<<D>>)>>)>>,
        \* NET A PAYER\s*([\d\s,\.]+)\s*€
        total |-> Word("NET A PAYER") \o
                  <<Star(<<S>>), Grp(1, ChiffresEspaces), Star(<<S>>), Lit("€")>>] >>

\* the index in suppliers_patterns of a supplier
IndexOf(supplier) == CHOOSE k \in 1..Len(suppliers_patterns) : suppliers_patterns[k].supplier = supplier

\* for supplier, patterns in self.suppliers_patterns.items():
\*     for identifier in patterns['identifier']:
\*         if identifier.lower() in text.lower(): return supplier
\* None is the empty string.
RECURSIVE identify_boucle(_, _)
identify_boucle(text_lower, k) ==
    IF k > Len(suppliers_patterns) THEN ""
    ELSE IF \E j \in 1..Len(suppliers_patterns[k].identifier) :
                 Contains(Lower(suppliers_patterns[k].identifier[j]), text_lower)
         THEN suppliers_patterns[k].supplier
         ELSE identify_boucle(text_lower, k + 1)

identify_supplier(text) == identify_boucle(Lower(text), 1)

\* extract_text_from_pdf: the text of the pages one after the other, or ""
\* when the file cannot be read (except Exception: return "")
RECURSIVE texte_du_document(_)
texte_du_document(pages) ==
    IF Len(pages) = 0 THEN "" ELSE Head(pages).texte \o texte_du_document(Tail(pages))

extract_text_from_pdf(fichier) ==
    IF fichier.lisible THEN texte_du_document(fichier.pages) ELSE ""

\* re.sub(pattern, '', s), from position from on: the matches are found from
\* left to right, each search starting where the previous match ended.  No
\* pattern of the source matches the empty string, and none has a group:
\* group 7 is put around the pattern to learn where the match starts.
RECURSIVE ReSubFrom(_, _, _)
RECURSIVE ReSubMatch(_, _, _, _)
ReSubFrom(pattern, s, from) ==
    ReSubMatch(pattern, s, from, SearchIn(<<Grp(7, pattern)>>, s, from, Len(s) + 1))
ReSubMatch(pattern, s, from, m) ==
    IF ~m.ok THEN SubSeq(s, from, Len(s))
    ELSE SubSeq(s, from, m.caps[7][1] - 1) \o ReSubFrom(pattern, s, m.end)

ReSub(pattern, s) == ReSubFrom(pattern, s, 1)

\* ' '.join(s.split()): the words of s, one blank between two words
RECURSIVE Squeeze(_, _, _)
Squeeze(s, lo, hi) ==
    IF lo > hi THEN ""
    ELSE IF lo = hi
         THEN (IF Ch(s, lo) \notin Spaces THEN Ch(s, lo)
               ELSE IF lo > 1 /\ Ch(s, lo - 1) \notin Spaces THEN " " ELSE "")
         ELSE LET m == (lo + hi) \div 2
              IN  Squeeze(s, lo, m) \o Squeeze(s, m + 1, hi)

SplitJoin(s) == Strip(Squeeze(s, 1, Len(s)))

\* \d+[,\.]?\d*
NombreLibre == <<Plus(<<D>>), Opt(<<Set({",", "."})>>), Star(<<D>>)>>
\* [LlCcMm] and [Ll]
LCM == Set({"L", "l", "C", "c", "M", "m"})
Ll == Set({"L", "l"})
\* [xX\*]
Fois == Set({"x", "X", "*"})

\* the patterns clean_product_name removes, in the order of the calls
\* ^\d+\s+
\* \d+[xX\*]\d+[,\.]?\d*\s*[LlCcMm][Ll]?
\* \d+[,\.]?\d*\s*[LlCcMm][Ll]
\* \d+[,\.]?\d*\s*KG                       with re.IGNORECASE
\* \d+%
\* \d+P\s
\* \([^)]*\)
clean_patterns ==
    << <<Bol, Plus(<<D>>), Plus(<<S>>)>>,
       <<Plus(<<D>>), Fois>> \o NombreLibre \o <<Star(<<S>>), LCM, Opt(<<Ll>>)>>,
       NombreLibre \o <<Star(<<S>>), LCM, Ll>>,
       NombreLibre \o <<Star(<<S>>)>> \o WordI("KG"),
       <<Plus(<<D>>), Lit("%")>>,
       <<Plus(<<D>>), Lit("P"), S>>,
       <<Lit("("), Star(<<Set(Alphabet \ {")"})>>), Lit(")")>> >>

RECURSIVE clean_boucle(_, _)
clean_boucle(product_name, k) ==
    IF k > Len(clean_patterns) THEN product_name
    ELSE clean_boucle(ReSub(clean_patterns[k], product_name), k + 1)

clean_product_name(product_name) == Strip(SplitJoin(clean_boucle(product_name, 1)))

\* the patterns of parse_volume, in the order of the list
\* (\d+)[xX\*](\d+(?:[,\.]\d+)?)\s*([LlCcMm][Ll]?)
\* (\d+(?:[,\.]\d+)?)\s*([LlCcMm][Ll])
\* (\d+)[xX\*](\d+[,\.]\d+)\s*([LlCcMm][Ll]?)
\* (\d+(?:[,\.]\d+)?)\s*(KG|kg|Kg)
\* (\d+)\s*(CL|cl)
\* (\d+)\s*P(?:\s|$)
volume_patterns ==
    << [groups |-> 3,
        pattern |-> <<Grp(1, <<Plus(<<D>>)>>), Fois, Grp(2, Nombre), Star(<<S>>),
                      Grp(3, <<LCM, Opt(<<Ll>>)>>)>>],
       [groups |-> 2,
        pattern |-> <<Grp(1, Nombre), Star(<<S>>), Grp(2, <<LCM, Ll>>)>>],
       [groups |-> 3,
        pattern |-> <<Grp(1, <<Plus(<<D>>)>>), Fois, Grp(2, Decimal), Star(<<S>>),
                      Grp(3, <<LCM, Opt(<<Ll>>)>>)>>],
       [groups |-> 2,
        pattern |-> <<Grp(1, Nombre), Star(<<S>>),
                      Grp(2, <<Alt(<<Word("KG"), Word("kg"), Word("Kg")>>)>>)>>],
       [groups |-> 2,
        pattern |-> <<Grp(1, <<Plus(<<D>>)>>), Star(<<S>>),
                      Grp(2, <<Alt(<<Word("CL"), Word("cl")>>)>>)>>],
       [groups |-> 1,
        pattern |-> <<Grp(1, <<Plus(<<D>>)>>), Star(<<S>>), Lit("P"), Alt(<< <<S>>, <<Eol>> >>)>>] >>

Volume(volume, unit) == [volume |-> volume, unit |-> unit]

\* invoice_analyzer.py 113-127: Format multiplicateur, conversion en litres
volume_multiplicateur(total, unit) ==
    IF Contains("CL", unit) THEN Volume(RDiv(total, RInt(100)), "L")
    ELSE IF Contains("ML", unit) THEN Volume(RDiv(total, RInt(1000)), "L")
    ELSE Volume(total, "L")

\* invoice_analyzer.py 130-142: Format simple
volume_simple(volume, unit) ==
    IF Contains("CL", unit) THEN Volume(RDiv(volume, RInt(100)), "L")
    ELSE IF Contains("ML", unit) THEN Volume(RDiv(volume, RInt(1000)), "L")
    ELSE IF Contains("KG", unit) THEN Volume(volume, "KG")
    ELSE Volume(volume, unit)

\* parse_volume: the first pattern found decides.  float() is given digits
\* with at most one separator, so the except branches are never taken; a
\* match of the last pattern (one group) returns nothing and the loop ends.
RECURSIVE volume_boucle(_, _)
RECURSIVE volume_match(_, _, _)
volume_boucle(description, k) ==
    IF k > Len(volume_patterns) THEN Volume(RZero, "")
    ELSE volume_match(description, k, ReSearch(volume_patterns[k].pattern, description))
volume_match(description, k, match) ==
    LET g(i) == Group(description, match, i)
    IN  IF ~match.ok THEN volume_boucle(description, k + 1)
        ELSE IF volume_patterns[k].groups = 3
        THEN volume_multiplicateur(RMul(Val(g(1)), Val(g(2))), Upper(g(3)))
        ELSE IF volume_patterns[k].groups = 2
        THEN volume_simple(Val(g(1)), Upper(g(2)))
        ELSE volume_boucle(description, k + 1)

parse_volume(description) == volume_boucle(description, 1)

\* float(g.replace(',', '.')): [ok |-> FALSE] where float() raises ValueError
Flottant(g) == PyFloat(Replace(g, ",", "."))

\* the days of month m of year y
JoursDuMois(m, y) ==
    IF m \in {4, 6, 9, 11} THEN 30
    ELSE IF m = 2
         THEN (IF y % 4 = 0 /\ (y % 100 # 0 \/ y % 400 = 0) THEN 29 ELSE 28)
         ELSE 31

\* the decimal digits of a year, as strftime('%Y') of the C library prints it
RECURSIVE SansZeros(_)
SansZeros(s) == IF Len(s) > 1 /\ Ch(s, 1) = "0" THEN SansZeros(SubSeq(s, 2, Len(s))) ELSE s

\* parse_invoice 190-198: date_str is dd?mm?yyyy with one separator among
\* . - / (each pattern of the registry captures one of these shapes); the
\* format with that separator parses it when the date exists, else date
\* stays ''
date_uniforme(date_str) ==
    LET d == DecVal(SubSeq(date_str, 1, 2))
        m == DecVal(SubSeq(date_str, 4, 5))
        y == DecVal(SubSeq(date_str, 7, 10))
    IN  IF /\ Ch(date_str, 3) = Ch(date_str, 6)
           /\ Ch(date_str, 3) \in {".", "-", "/"}
           /\ y >= 1 /\ m \in 1..12 /\ d >= 1 /\ d <= JoursDuMois(m, y)
        THEN SansZeros(SubSeq(date_str, 7, 10)) \o "-" \o SubSeq(date_str, 4, 5)
                 \o "-" \o SubSeq(date_str, 1, 2)
        ELSE ""

\* vat_patterns of parse_invoice
\* TOTAL TVA\s*([\d\s,\.]+)
\* Montant TVA\s*([\d\s,\.]+)
\* TVA.*?:\s*([\d\s,\.]+)\s*€
vat_patterns ==
    << Word("TOTAL TVA") \o <<Star(<<S>>), Grp(1, ChiffresEspaces)>>,
       Word("Montant TVA") \o <<Star(<<S>>), Grp(1, ChiffresEspaces)>>,
       Word("TVA") \o <<RepLazy(<<Dot>>, 0, Inf), Lit(":"), Star(<<S>>),
                        Grp(1, ChiffresEspaces), Star(<<S>>), Lit("€")>> >>

\* float(group.replace(' ', '').replace(',', '.'))
Montant(g) == PyFloat(Replace(Replace(g, " ", ""), ",", "."))

\* parse_invoice 215-223: the first pattern found whose group float() accepts
RECURSIVE vat_boucle(_, _)
RECURSIVE vat_essai(_, _, _)
vat_boucle(text, k) ==
    IF k > Len(vat_patterns) THEN RZero
    ELSE vat_essai(text, k, ReSearch(vat_patterns[k], text))
vat_essai(text, k, vat_match) ==
    LET v == Montant(Group(text, vat_match, 1))
    IN  IF vat_match.ok /\ v.ok THEN v.v ELSE vat_boucle(text, k + 1)

\* products.append(p), where building p may have raised
Ajouter(products, p) == IF ~p.ok THEN Failed ELSE Ok(Append(products, p.v))

\* match = re.match(pattern, line); if match: products.append(product(line, match))
parse_line(line, match, product(_, _), products) ==
    IF ~match.ok THEN Ok(products) ELSE Ajouter(products, product(line, match))

\* for line in lines: ...; r is Ok(products), or Failed once building a
\* product has raised
RECURSIVE parse_lines(_, _, _, _)
parse_lines(lines, pattern, product(_, _), r) ==
    IF Len(lines) = 0 \/ ~r.ok THEN r
    ELSE parse_lines(Tail(lines), pattern, product,
             parse_line(Head(lines), ReMatch(pattern, Head(lines)), product, r.v))

\* a product dict
Product(code, name, quantity, unit, price, volume) ==
    [code |-> code, name |-> name, quantity |-> quantity, unit |-> unit, price |-> price,
     volume |-> volume.volume, volume_unit |-> volume.unit]

\* ^\d+/\s+(\d+)\s+(.*?)\s+(\d+[,\.]\d+)\s+(PCH|KG|COL|SAC|PU|FLT|BQT)\s+.*?\s+([\d,\.]+)$
TERRE_AZUR_LIGNE ==
    suppliers_patterns[IndexOf("TERRE AZUR")].product_line \o
    <<Plus(<<S>>), RepLazy(<<Dot>>, 0, Inf), Plus(<<S>>), Grp(5, Chiffres), Eol>>

terre_azur_product(line, match) ==
    LET g(i) == Group(line, match, i)
        price == Flottant(g(5))
    IN  IF ~price.ok THEN Failed
        ELSE Ok(Product(g(1), clean_product_name(g(2)), Val(g(3)), g(4), price.v,
                        parse_volume(g(2))))

parse_terre_azur_products(lines) == parse_lines(lines, TERRE_AZUR_LIGNE, terre_azur_product, Ok(<<>>))

\* ^(\d{11})\s+(\d+)\s+(.*?)\s+([SI])\s+.*?\s+([\d,\.]+)\s+([DB])
IA_METRO_LIGNE ==
    <<Bol, Grp(1, <<Rep(<<D>>, 11, 11)>>), Plus(<<S>>), Grp(2, <<Plus(<<D>>)>>), Plus(<<S>>),
      Grp(3, <<RepLazy(<<Dot>>, 0, Inf)>>), Plus(<<S>>), Grp(4, <<Set({"S", "I"})>>),
      Plus(<<S>>), RepLazy(<<Dot>>, 0, Inf), Plus(<<S>>), Grp(5, Chiffres), Plus(<<S>>),
      Grp(6, <<Set({"D", "B"})>>)>>

metro_product(line, match) ==
    LET g(i) == Group(line, match, i)
        price == Flottant(g(5))
    IN  IF ~price.ok THEN Failed
        ELSE Ok(Product(g(1), clean_product_name(g(3)), Val(g(2)), "UN", price.v,
                        parse_volume(g(3))))

parse_metro_products(lines) == parse_lines(lines, IA_METRO_LIGNE, metro_product, Ok(<<>>))

\* ^(T\d+)\s+(\d+)\s+(CAR|UN)\s+(.*?)\s+([\d,\.]+)\s+([\d,\.]+)\s+\d+
COLIN_LIGNE ==
    suppliers_patterns[IndexOf("COLIN RHD")].product_line \o <<Plus(<<S>>), Plus(<<D>>)>>

\* invoice_analyzer.py 298-306: float() of group 6 is not guarded
colin_product(line, match) ==
    LET g(i) == Group(line, match, i)
        price == Flottant(g(6))
    IN  IF ~price.ok THEN Failed
        ELSE Ok(Product(g(1), clean_product_name(g(4)), Val(g(2)), g(3), price.v,
                        Volume(RZero, "")))

parse_colin_products(lines) == parse_lines(lines, COLIN_LIGNE, colin_product, Ok(<<>>))

\* ^\d+/\s+(\d+)\s+(.*?)\s+(\d+[,\.]\d+)\s+(BID|PCH|COL|BTL|SAC)\s+.*?\s+([\d,\.]+)
EPISAVEURS_LIGNE ==
    suppliers_patterns[IndexOf("EPISAVEURS")].product_line \o
    <<Plus(<<S>>), RepLazy(<<Dot>>, 0, Inf), Plus(<<S>>), Grp(5, Chiffres)>>

episaveurs_product(line, match) ==
    LET g(i) == Group(line, match, i)
        price == Flottant(g(5))
    IN  IF ~price.ok THEN Failed
        ELSE Ok(Product(g(1), clean_product_name(g(2)), Val(g(3)), g(4), price.v,
                        parse_volume(g(2))))

parse_episaveurs_products(lines) == parse_lines(lines, EPISAVEURS_LIGNE, episaveurs_product, Ok(<<>>))

\* ^(\d{7})\s+(.*?)\s+(\d+)\s+(BTL|CAR|CAI|FAR)\s+.*?\s+([\d,\.]+)
IA_FOUGERES_LIGNE ==
    <<Bol, Grp(1, <<Rep(<<D>>, 7, 7)>>), Plus(<<S>>), Grp(2, <<RepLazy(<<Dot>>, 0, Inf)>>),
      Plus(<<S>>), Grp(3, <<Plus(<<D>>)>>), Plus(<<S>>),
      Grp(4, <<Alt(<<Word("BTL"), Word("CAR"), Word("CAI"), Word("FAR")>>)>>),
      Plus(<<S>>), RepLazy(<<Dot>>, 0, Inf), Plus(<<S>>), Grp(5, Chiffres)>>

\* 'price': 0.0  # À calculer
fougeres_product(line, match) ==
    LET g(i) == Group(line, match, i)
    IN  Ok(Product(g(1), clean_product_name(g(2)), Val(g(3)), g(4), RZero, parse_volume(g(2))))

parse_fougeres_products(lines) == parse_lines(lines, IA_FOUGERES_LIGNE, fougeres_product, Ok(<<>>))

\* ^([A-Z]+\d+)\s+(.*?)\s+([\d,\.]+)\s+([\d,\.]+)\s+([\d,\.]+)\s+([\d,\.]+)\s+(C\d+)
CAVE3B_LIGNE ==
    <<Bol, Grp(1, <<Plus(<<Set(UpperLetters)>>), Plus(<<D>>)>>), Plus(<<S>>),
      Grp(2, <<RepLazy(<<Dot>>, 0, Inf)>>), Plus(<<S>>), Grp(3, Chiffres), Plus(<<S>>),
      Grp(4, Chiffres), Plus(<<S>>), Grp(5, Chiffres), Plus(<<S>>), Grp(6, Chiffres),
      Plus(<<S>>), Grp(7, <<Lit("C"), Plus(<<D>>)>>)>>

\* 'volume': 0.75 unless parse_volume finds a volume > 0
cave3b_volume(v) == IF RLess(RZero, v.volume) THEN v ELSE Volume(Rat(3, 4), "L")

\* invoice_analyzer.py, _parse_cave3b_products: the dict of a line; quantity,
\* price and unit_price are float() of groups 3, 6 and 4, none guarded
cave3b_dict(code, name, quantity, price, unit_price, volume) ==
    IF ~quantity.ok \/ ~price.ok \/ ~unit_price.ok THEN Failed
    ELSE Ok([code |-> code, name |-> name, quantity |-> quantity.v,
             unit |-> "BTL", price |-> price.v, unit_price |-> unit_price.v,
             volume |-> volume.volume, volume_unit |-> volume.unit])

cave3b_product(line, match) ==
    LET g(i) == Group(line, match, i)
    IN  cave3b_dict(g(1), clean_product_name(g(2)), Flottant(g(3)), Flottant(g(6)),
                    Flottant(g(4)), cave3b_volume(parse_volume(g(2))))

parse_cave3b_products(lines) == parse_lines(lines, CAVE3B_LIGNE, cave3b_product, Ok(<<>>))

\* _parse_generic_products: reached for PASSIONFROID alone, whose
\* product_line has four groups, so that len(groups) >= 4 holds and
\* groups[4] does not exist: price is float('0')
generic_product(line, match) ==
    LET g(i) == Group(line, match, i)
    IN  Ok(Product(g(1), clean_product_name(g(2)), Val(g(3)), g(4), RZero, parse_volume(g(2))))

parse_generic_products(lines, patterns) ==
    parse_lines(lines, patterns.product_line, generic_product, Ok(<<>>))

\* parse_invoice 225-242
parse_products(lines, supplier) ==
    CASE supplier = "TERRE AZUR" -> parse_terre_azur_products(lines)
      [] supplier = "METRO" -> parse_metro_products(lines)
      [] supplier = "COLIN RHD" -> parse_colin_products(lines)
      [] supplier = "EPISAVEURS" -> parse_episaveurs_products(lines)
      [] supplier = "FOUGERES BOISSONS" -> parse_fougeres_products(lines)
      [] supplier = "CAVE LES 3B" -> parse_cave3b_products(lines)
      [] OTHER -> parse_generic_products(lines, suppliers_patterns[IndexOf(supplier)])

\* parse_invoice 190-198: the date found, in the uniform format
date_lue(date_match, text) ==
    IF date_match.ok THEN date_uniforme(Group(text, date_match, 1)) ELSE ""

\* parse_invoice 201-207: the total found, 0.0 when float() rejects it
total_lu(total_match, text) ==
    LET total == Montant(Group(text, total_match, 1))
    IN  IF total_match.ok /\ total.ok THEN total.v ELSE RZero

\* parse_invoice 170-244, given the patterns of the supplier and the products
\* of the lines
invoice_dict(text, supplier, patterns, products) ==
    IF ~products.ok THEN Failed
    ELSE Ok([supplier |-> supplier,
             invoice_number |-> GroupeOu(ReSearch(patterns.invoice_number, text), text, ""),
             date |-> date_lue(ReSearch(patterns.date, text), text),
             total_amount |-> total_lu(ReSearch(patterns.total, text), text),
             total_vat |-> vat_boucle(text, 1),
             products |-> products.v])

\* parse_invoice: Ok(invoice_data), or Failed when an exception leaves it
parse_invoice(text, supplier) ==
    invoice_dict(text, supplier, suppliers_patterns[IndexOf(supplier)],
                 parse_products(SplitLines(text), supplier))

\* process_invoices 437-446: the row of the invoice
invoice_row(filename, invoice_data) ==
    [Fichier |-> filename,
     Fournisseur |-> invoice_data.supplier,
     N_Facture |-> invoice_data.invoice_number,
     Date |-> invoice_data.date,
     Total_HT |-> RSub(invoice_data.total_amount, invoice_data.total_vat),
     TVA |-> invoice_data.total_vat,
     Total_TTC |-> invoice_data.total_amount,
     Nb_Produits |-> Len(invoice_data.products)]

\* product_row with the unit price of a product without quantity set to its
\* price, as app.py does (a variant, to show what C26 rests on)
product_row_total(supplier, invoice_data, product) ==
    [Fournisseur |-> supplier,
     Date |-> invoice_data.date,
     N_Facture |-> invoice_data.invoice_number,
     Code |-> product.code,
     Produit |-> product.name,
     Quantite |-> product.quantity,
     Unite |-> product.unit,
     Volume |-> product.volume,
     Volume_Unit |-> product.volume_unit,
     Prix_Unitaire |-> IF "unit_price" \in DOMAIN product THEN product.unit_price
                       ELSE IF RLess(RZero, product.quantity)
                            THEN RDiv(product.price, product.quantity)
                            ELSE product.price,
     Prix_Total |-> product.price]

\* process_invoices 450-462: the row of a product
product_row(supplier, invoice_data, product) ==
    [Fournisseur |-> supplier,
     Date |-> invoice_data.date,
     N_Facture |-> invoice_data.invoice_number,
     Code |-> product.code,
     Produit |-> product.name,
     Quantite |-> product.quantity,
     Unite |-> product.unit,
     Volume |-> product.volume,
     Volume_Unit |-> product.volume_unit,
     Prix_Unitaire |-> IF "unit_price" \in DOMAIN product THEN product.unit_price
                       ELSE IF RLess(RZero, product.quantity)
                            THEN RDiv(product.price, product.quantity)
                            ELSE RZero,
     Prix_Total |-> product.price]

RECURSIVE product_rows(_, _, _)
product_rows(supplier, invoice_data, products) ==
    IF Len(products) = 0 THEN <<>>
    ELSE <<product_row(supplier, invoice_data, Head(products))>>
         \o product_rows(supplier, invoice_data, Tail(products))

(***************************************************************************)
(* The documents given to the analysers, and the clock                     *)
(***************************************************************************)
\* The files a batch is drawn from.  lisible is whether the PDF library can
\* open the file; a table cell None is the empty string.
Documents ==
    << [nom |-> "fougeres_tables.pdf", lisible |-> TRUE,
        pages |-> << [texte |-> "FOUGERES BOISSONS\nFacture VTE-2024001 du 15/03/2024\n0024100 GIN BEEFEATER 70CL 2 BTL 14,99 29,98\n0024101 CREME CASSIS 100CL 1 BTL 6,51 6,51\n0024102 SIROP MENTHE 1L 3 BTL 4,50 13,50\nNet facture 49,99",
                   tables |-> << << <<"Code", "Désignation", "Qté", "PU HT", "Montant">>,
                             <<"0024100", "GIN BEEFEATER 70CL", "2", "14,99", "29,98">>,
                             <<"", "Total", "", "", "29,98">> >> >>] >>],
       [nom |-> "fougeres_inverse.pdf", lisible |-> TRUE,
        pages |-> << [texte |-> "FOUGERES BOISSONS\nFacture VTE-2024001 du 15/03/2024",
                   tables |-> << << <<"0024100", "GIN BEEFEATER 70CL", "2", "29,98", "14,99">> >> >>] >>],
       [nom |-> "fougeres_conflit.pdf", lisible |-> TRUE,
        pages |-> << [texte |-> "FOUGERES BOISSONS\nFacture VTE-2024001 du 15/03/2024",
                   tables |-> << << <<"0024100", "GIN BEEFEATER 70CL", "2", "14,99", "50,00">> >> >>] >>],
       [nom |-> "fougeres_prix_seul.pdf", lisible |-> TRUE,
        pages |-> << [texte |-> "FOUGERES BOISSONS\nFacture VTE-2024001 du 15/03/2024",
                   tables |-> << << <<"0024100", "GIN BEEFEATER 70CL", "3", "10,00", "">> >> >>] >>],
       [nom |-> "fougeres_exposant.pdf", lisible |-> TRUE,
        pages |-> << [texte |-> "FOUGERES BOISSONS\nFacture VTE-2024001 du 15/03/2024\nNet facture 34,48",
                   tables |-> << << <<"0024100", "GIN BEEFEATER 70CL", "2", "14,99", "29,98">>,
                             <<"0024102", "SIROP MENTHE 1L", "1²", "4,50", "4,50">> >> >>] >>],
       [nom |-> "fougeres_texte.pdf", lisible |-> TRUE,
        pages |-> << [texte |-> "FOUGERES BOISSONS\nFacture VTE-2024001 du 15/03/2024\n0024100 GIN BEEFEATER 70CL 2 BTL 14,99 29,98\n0024101 CREME CASSIS 100CL 3 BTL 6,51 EUR",
                   tables |-> <<>>] >>],
       [nom |-> "fougeres_total_seul.pdf", lisible |-> TRUE,
        pages |-> << [texte |-> "FOUGERES BOISSONS\nFacture VTE-2024001 du 15/03/2024\nNet facture 1 234,50",
                   tables |-> <<>>] >>],
       [nom |-> "fougeres_total_tab.pdf", lisible |-> TRUE,
        pages |-> << [texte |-> "FOUGERES BOISSONS\nFacture VTE-2024001 du 15/03/2024\nNet facture 1\t234,50",
                   tables |-> <<>>] >>],
       [nom |-> "cave_total_seul.pdf", lisible |-> TRUE,
        pages |-> << [texte |-> "Cave Les 3B\nDate document : 02/04/2024\nTOTAL TTC 85.00",
                   tables |-> <<>>] >>],
       [nom |-> "inconnu_tables.pdf", lisible |-> TRUE,
        pages |-> << [texte |-> "EPICERIE DU COIN\nle 12/04/2024",
                   tables |-> << << <<"Article", "Qté", "Prix">>,
                             <<"12345", "HUILE OLIVE 1L", "4", "7,25", "29,00">>,
                             <<"", "POIVRE NOIR 500G", "0", "3,10">> >> >>] >>],
       [nom |-> "inconnu_texte.pdf", lisible |-> TRUE,
        pages |-> << [texte |-> "EPICERIE DU COIN\n12345 HUILE OLIVE 1L 4 29,00\nSEL FIN 1KG 2 1,80",
                   tables |-> <<>>] >>],
       [nom |-> "inconnu_vide.pdf", lisible |-> TRUE,
        pages |-> << [texte |-> "Bon de livraison",
                   tables |-> <<>>] >>],
       [nom |-> "illisible.pdf", lisible |-> FALSE,
        pages |-> << [texte |-> "",
                   tables |-> <<>>] >>],
       [nom |-> "metro.pdf", lisible |-> TRUE,
        pages |-> << [texte |-> "METRO France\nDate facture : 03-05-2024\n1234567890123 123456 COCA COLA 6X33CL 12,50\n1234567890124 SAUCE TOMATE 3,10 2\n654321 EAU PERRIER 6 4,20",
                   tables |-> <<>>] >>],
       [nom |-> "promocash.pdf", lisible |-> TRUE,
        pages |-> << [texte |-> "Promocash Rennes\nmagasin du groupe metro france\n654321 EAU PERRIER 6 4,20",
                   tables |-> <<>>] >>],
       [nom |-> "colin.pdf", lisible |-> TRUE,
        pages |-> << [texte |-> "COLIN RHD SAS\nFACTURE F240315\nDate : 15/03/2024\nT2304905 1 CAR GNOCCHI POMME DE TERRE 30,78 30,78 20\nNET À PAYER : **30,78",
                   tables |-> <<>>] >>],
       [nom |-> "colin_milliers.pdf", lisible |-> TRUE,
        pages |-> << [texte |-> "COLIN RHD SAS\nFACTURE F240316\nT2304905 1 CAR GNOCCHI POMME DE TERRE 30,78 30,78 20\nT2304906 2 UN SAUCE TOMATE 617,28 1.234,56 20",
                   tables |-> <<>>] >>],
       [nom |-> "terreazur.pdf", lisible |-> TRUE,
        pages |-> << [texte |-> "TerreAzur Bretagne\nTA BRETAGNE\nFACTURE N° 123456 du 15.03.2024\n340/ 102946 Mangue joue 1KX6 2,000 PCH 2,000 KG 14,990 E 1 29,98\nTOTAL TVA 1,56\nNet à payer : 29,98 EUR",
                   tables |-> <<>>] >>],
       [nom |-> "cave_fougeres.pdf", lisible |-> TRUE,
        pages |-> << [texte |-> "Cave Les 3B\nN°F990123\nDate document : 31/04/2024\nLAB20 COTES DE THAU BLANC 75CL 6.00 4.75 4.75 28.50 C20\nLivraison par Fougeres Boissons\nNET A PAYER 28.50 €",
                   tables |-> <<>>] >>],
       [nom |-> "inconnu_inverse.pdf", lisible |-> TRUE,
        pages |-> << [texte |-> "EPICERIE DU COIN\nle 13/04/2024",
                   tables |-> << << <<"12345", "HUILE OLIVE 1L", "4", "29,00", "7,25">>,
                             <<"22222", "SEL FIN 1KG", "2", "1,80">> >> >>] >>],
       [nom |-> "fougeres_doublon.pdf", lisible |-> TRUE,
        pages |-> << [texte |-> "FOUGERES BOISSONS\nFacture VTE-2024002 du 16/03/2024\n0024100 GIN BEEFEATER 70CL 2 BTL 14,99 29,98\n0024100 GIN BEEFEATER 70CL 1 BTL 29,98 29,98",
                   tables |-> <<>>] >>],
       [nom |-> "fougeres_sans_prix.pdf", lisible |-> TRUE,
        pages |-> << [texte |-> "FOUGERES BOISSONS\nFacture VTE-2024001 du 15/03/2024",
                   tables |-> << << <<"0024100", "GIN BEEFEATER 70CL", "2", "", "">>,
                             <<"0024103", "SIROP MENTHE 0CL", "1", "4,50", "4,50">> >> >>] >>],
       [nom |-> "inconnu_total.pdf", lisible |-> TRUE,
        pages |-> << [texte |-> "EPICERIE DU COIN\nle 14/04/2024",
                   tables |-> << << <<"Code", "Article", "Qté", "Montant">>,
                             <<"12345", "HUILE OLIVE 1L", "4", "29,00">>,
                             <<"", "Total HT", "", "29,00">> >> >>] >>],
       [nom |-> "colin_gratuit.pdf", lisible |-> TRUE,
        pages |-> << [texte |-> "COLIN RHD SAS\nFACTURE F240317\nDate : 17/03/2024\nT2304907 0 CAR ECHANTILLON SAUCE 5,00 5,00 20\nT2304907 2 CAR ECHANTILLON SAUCE 5,00 10,00 20",
                   tables |-> <<>>] >>] >>

\* the values datetime.now() takes: the date as %d/%m/%Y and the minute as
\* %Y%m%d%H%M
Horloges ==
    << [date |-> "01/11/2026", minute |-> "202611012107"],
       [date |-> "02/11/2026", minute |-> "202611020915"] >>

\* the longest batch
MaxFichiers == 2

\* lire_facture with an unidentified document parsed by the generic parser
\* instead of being passed over (a variant, to show what C7 rests on)
lire_facture_generique(fichier) ==
    LET text == extract_text_from_pdf(fichier)
        supplier == identify_supplier(text)
    IN  IF text = "" THEN [text |-> "", supplier |-> "", r |-> Failed]
        ELSE IF supplier = ""
        THEN [text |-> text, supplier |-> "PASSIONFROID",
              r |-> parse_invoice(text, "PASSIONFROID")]
        ELSE [text |-> text, supplier |-> supplier, r |-> parse_invoice(text, supplier)]

\* process_invoices 419-433 for one file: the text, the supplier and, when
\* both are there, what parse_invoice gives
lire_facture(fichier) ==
    LET text == extract_text_from_pdf(fichier)
        supplier == identify_supplier(text)
    IN  IF text = "" THEN [text |-> "", supplier |-> "", r |-> Failed]
        ELSE IF supplier = "" THEN [text |-> text, supplier |-> "", r |-> Failed]
        ELSE [text |-> text, supplier |-> supplier, r |-> parse_invoice(text, supplier)]

\* filename.lower().endswith('.pdf')
EstPdf(nom) == Len(nom) >= 4 /\ Lower(SubSeq(nom, Len(nom) - 3, Len(nom))) = ".pdf"

(***************************************************************************)
(* The two programs: main of app.py (the Streamlit page, one run of the    *)
(* analysis per click) and main of invoice_analyzer.py (process_invoices   *)
(* over a folder).                                                         *)
(***************************************************************************)
VARIABLES
    programme,          \* "app" or "cli"
    fichiers,           \* the files uploaded, or the listing of the folder
    horloge,            \* the index in Horloges of the time it is
    etat,               \* "attente", "analyse", "fini", "exception"
    i,                  \* the number of files the loop has gone through
    tous_les_produits,  \* app.py main
    stats_analyse,      \* app.py main
    affichage,          \* what st.warning, st.error and st.success displayed
    retours,            \* what each call of analyser_pdf returned (history)
    all_invoices,       \* process_invoices
    all_products,       \* process_invoices
    journal,            \* what process_invoices printed about each file
    analyseur,          \* app.py main: the fields of the AnalyseurFacturesPro object
    heures,             \* the value of horloge at each call of analyser_pdf (history)
    entree,             \* the arguments of a function called on its own
    sortie              \* what that function returned

vars == <<programme, fichiers, horloge, etat, i, tous_les_produits, stats_analyse,
          affichage, retours, all_invoices, all_products, journal, analyseur, heures,
          entree, sortie>>

DocIds == 1..Len(Documents)

\* the batches: up to n documents that follow one another in Documents, or
\* the same document up to n times
Lots(n) ==
    ({[j \in 1..k |-> a + j - 1] : a \in DocIds, k \in 0..n} \cap Seq(DocIds))
    \cup {[j \in 1..k |-> a] : a \in DocIds, k \in 0..n}

\* app.py 18-24: the fields __init__ gives the object
AnalyseurFacturesPro ==
    [donnees_extraites |-> <<>>,
     stats_extraction |-> [total_lignes |-> 0, lignes_extraites |-> 0, methode_utilisee |-> ""]]

\* appel_analyser_pdf with the products kept in self.donnees_extraites and
\* the whole of that list returned (a variant, to show what C11 rests on)
appel_analyser_pdf_cumul(self, fichier, now) ==
    LET r == analyser_pdf(fichier, fichier.nom, now)
    IN  [r |-> [r EXCEPT !.produits = self.donnees_extraites \o r.produits],
         self |-> [self EXCEPT !.donnees_extraites = @ \o r.produits]]

\* app.py 669: analyseur.analyser_pdf(fichier, fichier.name), what it returns
\* and the fields of the object after the call; no method assigns or reads a field
appel_analyser_pdf(self, fichier, now) ==
    [r |-> analyser_pdf(fichier, fichier.nom, now), self |-> self]

\* no function has been called on its own
SansEntree == [description |-> "", quantite |-> 0, jeton |-> "", place |-> ""]
SansSortie == [fonction |-> "", v |-> <<>>]

Stats0(n) ==
    [total_fichiers |-> n, fichiers_reussis |-> 0, total_produits |-> 0, montant_total |-> RZero]

Init ==
    /\ programme \in {"app", "cli"}
    /\ fichiers \in Lots(MaxFichiers)
    /\ horloge = 1
    /\ etat = "attente"
    /\ i = 0
    /\ tous_les_produits = <<>>
    /\ stats_analyse = Stats0(0)
    /\ affichage = <<>>
    /\ retours = <<>>
    /\ all_invoices = <<>>
    /\ all_products = <<>>
    /\ journal = <<>>
    /\ analyseur = AnalyseurFacturesPro
    /\ heures = <<>>
    /\ entree = SansEntree
    /\ sortie = SansSortie

\* time passes
Tic ==
    /\ horloge < Len(Horloges)
    /\ horloge' = horloge + 1
    /\ UNCHANGED <<programme, fichiers, etat, i, tous_les_produits, stats_analyse,
                   affichage, retours, all_invoices, all_products, journal,
                   analyseur, heures, entree, sortie>>

\* app.py 645-663: if fichiers: if st.button(...)
Cliquer ==
    /\ programme = "app"
    /\ etat \in {"attente", "fini"}
    /\ Len(fichiers) > 0
    /\ etat' = "analyse"
    /\ i' = 0
    /\ tous_les_produits' = <<>>
    /\ stats_analyse' = Stats0(Len(fichiers))
    /\ affichage' = <<>>
    /\ retours' = <<>>
    /\ analyseur' = AnalyseurFacturesPro
    /\ heures' = <<>>
    /\ UNCHANGED <<programme, fichiers, horloge, all_invoices, all_products, journal,
                   entree, sortie>>

\* sum(p.get('Montant HT', 0) for p in produits)
RECURSIVE SommeMontants(_)
SommeMontants(produits) ==
    IF Len(produits) = 0 THEN RZero
    ELSE RAdd(Head(produits).Montant_HT, SommeMontants(Tail(produits)))

RECURSIVE Messages(_, _)
Messages(nom, types) ==
    IF Len(types) = 0 THEN <<>>
    ELSE <<[fichier |-> nom, message |-> Head(types)]>> \o Messages(nom, Tail(types))

\* app.py 666-684: one turn of the loop over fichiers
Analyser ==
    /\ programme = "app"
    /\ etat = "analyse"
    /\ i < Len(fichiers)
    /\ \E a \in {appel_analyser_pdf(analyseur, Documents[fichiers[i + 1]],
                                      Horloges[horloge])} :
       LET fichier == Documents[fichiers[i + 1]]
           r == a.r
           produits == r.produits
       IN  /\ retours' = Append(retours, r)
           /\ analyseur' = a.self
           /\ heures' = Append(heures, horloge)
           /\ IF r.exception
              THEN /\ etat' = "exception"
                   /\ affichage' = affichage \o Messages(fichier.nom, r.affiche)
                   /\ UNCHANGED <<i, tous_les_produits, stats_analyse>>
              ELSE /\ etat' = etat
                   /\ i' = i + 1
                   /\ IF Len(produits) > 0
                      THEN /\ tous_les_produits' = tous_les_produits \o produits
                           /\ stats_analyse' =
                                 [stats_analyse EXCEPT
                                    !.fichiers_reussis = @ + 1,
                                    !.total_produits = @ + Len(produits),
                                    !.montant_total = RAdd(@, SommeMontants(produits))]
                           /\ affichage' = affichage \o Messages(fichier.nom, r.affiche)
                                               \o Messages(fichier.nom, <<"success">>)
                      ELSE /\ UNCHANGED <<tous_les_produits, stats_analyse>>
                           /\ affichage' = affichage \o Messages(fichier.nom, r.affiche)
                                               \o Messages(fichier.nom, <<"aucune donnée">>)
    /\ UNCHANGED <<programme, fichiers, horloge, all_invoices, all_products, journal,
                   entree, sortie>>

\* app.py 686-690: the loop is over, the results are displayed
Afficher ==
    /\ programme = "app"
    /\ etat = "analyse"
    /\ i = Len(fichiers)
    /\ etat' = "fini"
    /\ UNCHANGED <<programme, fichiers, horloge, i, tous_les_produits, stats_analyse,
                   affichage, retours, all_invoices, all_products, journal,
                   analyseur, heures, entree, sortie>>

\* invoice_analyzer.py 522, 409-410: main calls process_invoices
Lancer ==
    /\ programme = "cli"
    /\ etat = "attente"
    /\ etat' = "analyse"
    /\ all_invoices' = <<>>
    /\ all_products' = <<>>
    /\ UNCHANGED <<programme, fichiers, horloge, i, tous_les_produits, stats_analyse,
                   affichage, retours, journal,
                   analyseur, heures, entree, sortie>>

Note(nom, message) == [fichier |-> nom, message |-> message]

\* invoice_analyzer.py 413-462: one turn of the loop over os.listdir.  An
\* exception that leaves parse_invoice leaves process_invoices and main.
Traiter ==
    /\ programme = "cli"
    /\ etat = "analyse"
    /\ i < Len(fichiers)
    /\ \E f \in {lire_facture(Documents[fichiers[i + 1]])} :
       LET fichier == Documents[fichiers[i + 1]]
       IN  IF ~EstPdf(fichier.nom)
           THEN /\ i' = i + 1
                /\ UNCHANGED <<etat, all_invoices, all_products, journal>>
           ELSE IF f.text = ""
           THEN /\ i' = i + 1
                /\ journal' = Append(journal, Note(fichier.nom, "Impossible de lire le fichier"))
                /\ UNCHANGED <<etat, all_invoices, all_products>>
           ELSE IF f.supplier = ""
           THEN /\ i' = i + 1
                /\ journal' = Append(journal, Note(fichier.nom, "Fournisseur non reconnu"))
                /\ UNCHANGED <<etat, all_invoices, all_products>>
           ELSE IF ~f.r.ok
           THEN /\ etat' = "exception"
                /\ journal' = Append(journal, Note(fichier.nom, "Fournisseur identifié"))
                /\ UNCHANGED <<i, all_invoices, all_products>>
           ELSE /\ i' = i + 1
                /\ journal' = Append(journal, Note(fichier.nom, "Fournisseur identifié"))
                /\ all_invoices' = Append(all_invoices, invoice_row(fichier.nom, f.r.v))
                /\ all_products' = all_products \o product_rows(f.supplier, f.r.v, f.r.v.products)
                /\ etat' = etat
    /\ UNCHANGED <<programme, fichiers, horloge, tous_les_produits, stats_analyse,
                   affichage, retours,
                   analyseur, heures, entree, sortie>>

\* invoice_analyzer.py 464-467: create_excel_report, return
CreerRapport ==
    /\ programme = "cli"
    /\ etat = "analyse"
    /\ i = Len(fichiers)
    /\ etat' = "fini"
    /\ journal' = Append(journal, Note("analyse_factures.xlsx", "Rapport Excel créé"))
    /\ UNCHANGED <<programme, fichiers, horloge, i, tous_les_produits, stats_analyse,
                   affichage, retours, all_invoices, all_products,
                   analyseur, heures, entree, sortie>>

Next ==
    \/ Tic
    \/ Cliquer
    \/ Analyser
    \/ Afficher
    \/ Lancer
    \/ Traiter
    \/ CreerRapport

Spec == Init /\ [][Next]_vars

(***************************************************************************)
(* The functions of the analysers called on their own: the classifier, the *)
(* extraction of the contenance, the conversion of the volume, parse_volume *)
(* and the reading of an amount written in different ways.                 *)
(***************************************************************************)
\* designations and contenances the descriptions are made of
Noms ==
    {"", "GIN", "GIN BEEFEATER", "Gin", "CRÈME DE CASSIS", "VIN DE BORDEAUX", "SAUCE AU VIN",
     "SALADE VERTE", "EAU PERRIER", "LAIT ENTIER", "GET 27", "PRODUIT SANS FORMAT",
     "HUILE D'OLIVE"}
Formats ==
    {"", "6X75CL", "6 x 1,5 L", "6×33cl", "75CL", "1.5L", "33 ML", "500G", "2,5KG",
     "PACK DE 6", "12 PC", "6BTL", "CAR 12", "3 BOUTEILLE", "6X75CL 12 PC",
     "12 PC 6X75CL", "6 BTE 4X500G"}
Quantites == {1, 3}
Description(nom, format) ==
    IF nom = "" THEN format ELSE IF format = "" THEN nom ELSE nom \o " " \o format

\* an amount written with a comma or a point, with or without a space
\* between the thousands and the hundreds, and the places it is read at
Jetons == {"12,50", "12.50", "1234,50", "1234.50", "1 234,50", "1 234.50"}
Places ==
    {"cellule Fougères", "ligne Fougères", "cellule universel", "ligne universel", "total"}

\* a document with one amount, written jeton, at the place
DocumentAvec(jeton, place) ==
    LET page ==
          CASE place = "cellule Fougères" ->
                 [texte |-> "FOUGERES BOISSONS\nFacture VTE-2024001 du 15/03/2024",
                  tables |-> << << <<"0024100", "GIN BEEFEATER 70CL", "2", jeton, "">> >> >>]
            [] place = "ligne Fougères" ->
                 [texte |-> "FOUGERES BOISSONS\nFacture VTE-2024001 du 15/03/2024\n0024100 GIN BEEFEATER 70CL 2 BTL "
                            \o jeton \o " EUR",
                  tables |-> <<>>]
            [] place = "cellule universel" ->
                 [texte |-> "EPICERIE DU COIN\nle 12/04/2024",
                  tables |-> << << <<"12345", "HUILE OLIVE 1L", "4", jeton>> >> >>]
            [] place = "ligne universel" ->
                 [texte |-> "EPICERIE DU COIN\n12345 HUILE OLIVE 1L 4 " \o jeton,
                  tables |-> <<>>]
            [] place = "total" ->
                 [texte |-> "FOUGERES BOISSONS\nNet facture " \o jeton, tables |-> <<>>]
    IN  [nom |-> "montant.pdf", lisible |-> TRUE, pages |-> <<page>>]

\* every keyword of the table of the classifier, as a description of its own
MotsCles ==
    UNION {{categories_detaillees[k].mots_cles[j] :
               j \in 1..Len(categories_detaillees[k].mots_cles)} :
           k \in 1..Len(categories_detaillees)}

Entrees ==
    {[description |-> Description(n, f), quantite |-> q, jeton |-> "", place |-> ""] :
        n \in Noms, f \in Formats, q \in Quantites}
    \cup {[description |-> mot, quantite |-> 1, jeton |-> "", place |-> ""] : mot \in MotsCles}
    \cup {[description |-> "", quantite |-> 0, jeton |-> j, place |-> p] :
            j \in Jetons, p \in Places}

InitFonctions ==
    /\ programme = "fonction"
    /\ fichiers = <<>>
    /\ horloge = 1
    /\ etat = "attente"
    /\ i = 0
    /\ tous_les_produits = <<>>
    /\ stats_analyse = Stats0(0)
    /\ affichage = <<>>
    /\ retours = <<>>
    /\ all_invoices = <<>>
    /\ all_products = <<>>
    /\ journal = <<>>
    /\ analyseur = AnalyseurFacturesPro
    /\ heures = <<>>
    /\ entree \in Entrees
    /\ sortie = SansSortie

\* one call: the function named is applied once to entree, and gives v
Rend(fonction, v) ==
    /\ sortie.fonction = ""
    /\ sortie' = [fonction |-> fonction, v |-> v]
    /\ UNCHANGED <<programme, fichiers, horloge, etat, i, tous_les_produits, stats_analyse,
                   affichage, retours, all_invoices, all_products, journal, analyseur,
                   heures, entree>>

\* app.py 428-457
Classer ==
    /\ entree.place = ""
    /\ Rend("determiner_categorie_avancee", determiner_categorie_avancee(entree.description))

\* app.py 49-82
Conditionner ==
    /\ entree.place = ""
    /\ Rend("extraire_contenance_avancee", extraire_contenance_avancee(entree.description))

\* app.py 85-115
Convertir ==
    /\ entree.place = ""
    /\ Rend("calculer_volume_total",
            calculer_volume_total(entree.quantite, entree.description))

\* invoice_analyzer.py 88-146
Mesurer ==
    /\ entree.place = ""
    /\ Rend("parse_volume", parse_volume(entree.description))

\* app.py 459-531, on a document with one amount
LireMontant ==
    /\ entree.place # ""
    /\ Rend("analyser_pdf",
            analyser_pdf(DocumentAvec(entree.jeton, entree.place), "montant.pdf",
                         Horloges[horloge]))

NextFonctions ==
    \/ Classer
    \/ Conditionner
    \/ Convertir
    \/ Mesurer
    \/ LireMontant

SpecFonctions == InitFonctions /\ [][NextFonctions]_vars

(***************************************************************************)
(* Properties.  The formulas below read the state of the two programs and  *)
(* the documents of the batch.                                             *)
(***************************************************************************)
\* the document given to the k-th turn of the loop, the text analyser_pdf
\* builds from it, the text extract_text_from_pdf gives, and its table rows
DocumentDe(k) == Documents[fichiers[k]]
TexteDe(k) == texte_des_pages(DocumentDe(k).pages)
TexteCli(k) == extract_text_from_pdf(DocumentDe(k))
LignesDe(k) == ToutesLesLignes(tables_des_pages(DocumentDe(k).pages))
Elems(s) == {s[n] : n \in 1..Len(s)}
\* the turns of the loop that have been run: those gone through and, after
\* an exception, the one the exception left
Traites == 1..(IF etat = "exception" THEN i + 1 ELSE i)

\* a row of a table that analyser_fougeres_avance reads (five cells, a code
\* of seven digits), and such a row with every whole number well formed
LigneFougeres(row) == Len(row) >= 5 /\ row[1] # "" /\ ReMatch(FOUGERES_CODE, row[1]).ok
LigneFougeresValide(row) ==
    /\ LigneFougeres(row)
    /\ \A j \in 3..Len(row) : IsDigitStr(Strip(row[j])) => AllDigits(Strip(row[j]))

\* C1: during the extraction of the lines of one document a malformed number
\* on one row or line drops that candidate alone: no exception leaves the
\* extractor (parse_invoice in process_invoices, the strategies in
\* analyser_pdf) and every valid row of the document still gives its record.
C1_NombreMalFormeLocal ==
    /\ programme = "cli" => etat # "exception"
    /\ \A k \in 1..Len(retours) :
          DocumentDe(k).lisible =>
             /\ retours[k].essais # <<>>
             /\ (retours[k].fournisseur = "Fougères Boissons") =>
                   \A n \in 1..Len(LignesDe(k)) :
                       LigneFougeresValide(LignesDe(k)[n]) =>
                           \E p \in Elems(retours[k].produits) :
                               p.Code_Article = LignesDe(k)[n][1]

\* C2: whatever fails while one document is processed, the loop over the
\* batch goes on: once the loop has ended, every document of the batch has
\* had its turn.
C2_LeLotContinue ==
    etat \in {"fini", "exception"} => Traites = 1..Len(fichiers)

\* C3 as the specification states it: the cascade stops at the tables only
\* when they gave at least 3 products; with 1 or 2 the text is parsed next.
C3_SeuilDeTrois ==
    \A k \in 1..Len(retours) : \A j \in 1..Len(retours[k].essais) :
        (retours[k].essais[j].strategie = "tables" /\ retours[k].essais[j].n < 3)
            => j < Len(retours[k].essais)

\* C3, amended: the cascade stops at the first strategy that gave at least
\* one product: the text is parsed if and only if the tables gave nothing,
\* and the products returned are those of the last strategy run.
C3_PremierResultatNonVide ==
    \A k \in 1..Len(retours) :
        /\ \A j \in 1..Len(retours[k].essais) :
              retours[k].essais[j].strategie = "tables" =>
                  (retours[k].essais[j].n = 0 <=> j < Len(retours[k].essais))
        /\ \A j \in 1..Len(retours[k].essais) :
              (j = Len(retours[k].essais) /\ retours[k].essais[j].n > 0) =>
                  Len(retours[k].produits) = retours[k].essais[j].n

\* the tables of a document gave one or two products and the text, which
\* has lines of products too, was not parsed
C3_Witness ==
    \E k \in 1..Len(retours) :
        /\ Len(retours[k].essais) = 1
        /\ retours[k].essais[1].strategie = "tables"
        /\ retours[k].essais[1].n \in {1, 2}
        /\ Len(retours[k].produits) = retours[k].essais[1].n
        /\ Len(fougeres_texte(SplitLines(TexteDe(k)), "", "", <<>>)) >= 3

\* the group of the total with every blank removed
SansBlancs(s) == Replace(Replace(Replace(s, " ", ""), "\t", ""), "\n", "")
C4_Attendu(r, texte, m) ==
    m.ok =>
       /\ Len(r.produits) = 1
       /\ StartsAt("Montant total facture", r.produits[1].Designation, 1)
       /\ r.produits[1].Montant_HT = Val(SansBlancs(Group(texte, m, 1)))

\* C4: a document of a known supplier in which no row of a table and no line
\* of the text gives a product, but which holds a total, gives exactly one
\* record, marked as the total of the invoice, whose amount is that total.
C4_TotalSeul ==
    \A k \in 1..Len(retours) :
        (/\ DocumentDe(k).lisible
         /\ retours[k].fournisseur # AutreFournisseur
         /\ retours[k].essais # <<>>
         /\ \A j \in 1..Len(retours[k].essais) : retours[k].essais[j].n = 0)
        => C4_Attendu(retours[k], TexteDe(k), ReSearch(MONTANT_TOTAL, TexteDe(k)))

\* C5: analyser_pdf never raises to main; when it extracts no product and
\* finds no total it returns an empty list, main displays the warning for
\* that file and goes on with the next.
C5_JamaisDException ==
    programme = "app" =>
       /\ etat # "exception"
       /\ Len(retours) = i
       /\ \A k \in 1..Len(retours) :
             /\ ~retours[k].exception
             /\ ((\A j \in 1..Len(retours[k].essais) : retours[k].essais[j].n = 0)
                  /\ ~ReSearch(MONTANT_TOTAL, TexteDe(k)).ok)
                => /\ retours[k].produits = <<>>
                   /\ [fichier |-> DocumentDe(k).nom, message |-> "aucune donnée"]
                          \in Elems(affichage)

\* a document without product and without total has been analysed, nothing
\* was returned for it, and the loop has gone on to a later document
C5_Witness ==
    /\ programme = "app"
    /\ \E k \in 1..Len(retours) :
          /\ k < Len(retours)
          /\ retours[k].produits = <<>>
          /\ retours[k].affiche = <<"warning">>
          /\ retours[k].essais = <<Essai("tables", 0), Essai("texte", 0)>>

\* sig occurs in texte, whatever the case of the letters of either
Occurs(sig, texte) ==
    \E a \in 1..(Len(texte) - Len(sig) + 1) :
        \A j \in 1..Len(sig) : UpperOf[Ch(sig, j)] = UpperOf[Ch(texte, a + j - 1)]
\* the profiles of each registry one of whose signatures occurs in texte
ProfilsApp(texte) ==
    {p \in 1..Len(fournisseurs) :
        \E j \in 1..Len(fournisseurs[p].patterns) : Occurs(fournisseurs[p].patterns[j], texte)}
ProfilsCli(texte) ==
    {p \in 1..Len(suppliers_patterns) :
        \E j \in 1..Len(suppliers_patterns[p].identifier) :
            Occurs(suppliers_patterns[p].identifier[j], texte)}
Min(E) == CHOOSE x \in E : \A y \in E : x <= y
Max(E) == CHOOSE x \in E : \A y \in E : x >= y

C6_App(r, profils) ==
    profils # {} => r.fournisseur = fournisseurs[Min(profils)].nom
C6_Cli(nom, profils) ==
    profils # {} =>
        \A n \in 1..Len(all_invoices) :
            all_invoices[n].Fichier = nom =>
                all_invoices[n].Fournisseur = suppliers_patterns[Min(profils)].supplier

\* C6: the supplier returned is that of the first profile, in the order of
\* the registry, one of whose signatures occurs in the text whatever the
\* case; of several profiles that occur, the one registered earliest wins.
C6_PremierProfil ==
    /\ \A k \in 1..Len(retours) :
          DocumentDe(k).lisible => C6_App(retours[k], ProfilsApp(TexteDe(k)))
    /\ programme = "cli" =>
          \A k \in Traites : C6_Cli(DocumentDe(k).nom, ProfilsCli(TexteCli(k)))

C6_Plusieurs(r, profils) ==
    Cardinality(profils) >= 2 /\ r.fournisseur = fournisseurs[Min(profils)].nom

\* a document in which signatures of two profiles occur, in a case that is
\* not that of the registry, has been given the earlier of the two
C6_Witness ==
    \E k \in 1..Len(retours) :
        /\ DocumentDe(k).lisible
        /\ C6_Plusieurs(retours[k], ProfilsApp(TexteDe(k)))
        /\ \A p \in 1..Len(fournisseurs) : \A j \in 1..Len(fournisseurs[p].patterns) :
               ~Contains(fournisseurs[p].patterns[j], TexteDe(k))

\* what analyser_pdf does with a document no profile of which matches
C7_App(r, profils) ==
    profils = {} =>
       /\ r.fournisseur = AutreFournisseur
       /\ r.essais # <<>>
       /\ \A j \in 1..Len(r.produits) : r.produits[j].Fournisseur = AutreFournisseur

\* C7 as the specification states it: a document no profile of which matches
\* is still processed, by the generic extraction; it is never passed over.
C7_JamaisPasse ==
    /\ \A k \in 1..Len(retours) :
          DocumentDe(k).lisible => C7_App(retours[k], ProfilsApp(TexteDe(k)))
    /\ programme = "cli" =>
          \A k \in Traites :
              (TexteCli(k) # "" /\ ProfilsCli(TexteCli(k)) = {}) =>
                  \E n \in 1..Len(all_invoices) : all_invoices[n].Fichier = DocumentDe(k).nom

\* C7, amended: in app.py a document no profile of which matches is given
\* 'Autre fournisseur' and goes through analyser_universel; in
\* process_invoices it is passed over with "Fournisseur non reconnu" and no
\* extraction is attempted.
C7_SansProfil ==
    /\ \A k \in 1..Len(retours) :
          DocumentDe(k).lisible => C7_App(retours[k], ProfilsApp(TexteDe(k)))
    /\ programme = "cli" =>
          \A k \in Traites :
              (TexteCli(k) # "" /\ ProfilsCli(TexteCli(k)) = {}) =>
                  /\ Note(DocumentDe(k).nom, "Fournisseur non reconnu") \in Elems(journal)
                  /\ \A n \in 1..Len(all_invoices) :
                         all_invoices[n].Fichier # DocumentDe(k).nom

\* process_invoices has passed over a document no profile of which matches
\* and has gone on to a later one
C7_Witness ==
    /\ programme = "cli"
    /\ \E k \in 1..i :
          /\ k < i
          /\ TexteCli(k) # ""
          /\ ProfilsCli(TexteCli(k)) = {}
          /\ Note(DocumentDe(k).nom, "Fournisseur non reconnu") \in Elems(journal)

\* the cells of row, from the cell debut on, that hold a price for pattern,
\* and the price a cell holds
CellulesPrix(row, debut, pattern) ==
    {j \in debut..Len(row) : row[j] # "" /\ ReMatch(pattern, Strip(row[j])).ok}
PrixLu(row, j) == Val(Strip(row[j]))
RMin(a, b) == IF RLess(b, a) THEN b ELSE a
RMax(a, b) == IF RLess(a, b) THEN b ELSE a
\* the records of the k-th document that the tables gave
ParTables(k) ==
    IF retours[k].essais # <<>> /\ retours[k].essais[1].strategie = "tables"
       /\ retours[k].essais[1].n > 0
    THEN Elems(retours[k].produits) ELSE {}
\* the records of the k-th document that the lines of the text gave
ParTexte(k) ==
    IF retours[k].essais # <<>>
       /\ retours[k].essais[Len(retours[k].essais)].strategie = "texte"
       /\ retours[k].essais[Len(retours[k].essais)].n > 0
    THEN Elems(retours[k].produits) ELSE {}
\* row is a row of a table of a Fougères invoice, p its record, and the row
\* has n cells with a price, none of them zero
FougeresPrix(k, row, p, n) ==
    /\ retours[k].fournisseur = "Fougères Boissons"
    /\ LigneFougeres(row)
    /\ p.Code_Article = row[1]
    /\ Cardinality(CellulesPrix(row, 3, FOUGERES_PRIX)) = n
    /\ \A j \in CellulesPrix(row, 3, FOUGERES_PRIX) : PrixLu(row, j) # RZero
\* row is a row of a table read by analyser_universel, p its record, and the
\* row has n cells with a price, after the first cell
UniverselPrix(k, row, p, n) ==
    /\ retours[k].fournisseur \notin {"Fougères Boissons", "Metro", "Promocash"}
    /\ Len(row) >= 3
    /\ \E j \in 1..Len(row) : Strip(row[j]) = p.Designation
    /\ Cardinality(CellulesPrix(row, 1, UNIVERSEL_PRIX)) = n
    /\ 1 \notin CellulesPrix(row, 1, UNIVERSEL_PRIX)
PremierPrix(row, debut, pattern) == PrixLu(row, Min(CellulesPrix(row, debut, pattern)))
DernierPrix(row, debut, pattern) == PrixLu(row, Max(CellulesPrix(row, debut, pattern)))
\* the total is the larger of the two prices a and b, the unit price the smaller
LePlusGrand(p, a, b) == p.Montant_HT = RMax(a, b) /\ p.Prix_Unitaire_HT = RMin(a, b)

\* C8 as the specification states it: of two prices on a row the larger is
\* the total and the smaller the unit price, whatever their order.
C8_LePlusGrandEstLeTotal ==
    \A k \in 1..Len(retours) : \A n \in 1..Len(LignesDe(k)) : \A p \in ParTables(k) :
        /\ FougeresPrix(k, LignesDe(k)[n], p, 2) =>
              LePlusGrand(p, PremierPrix(LignesDe(k)[n], 3, FOUGERES_PRIX),
                             DernierPrix(LignesDe(k)[n], 3, FOUGERES_PRIX))
        /\ UniverselPrix(k, LignesDe(k)[n], p, 2) =>
              LePlusGrand(p, PremierPrix(LignesDe(k)[n], 1, UNIVERSEL_PRIX),
                             DernierPrix(LignesDe(k)[n], 1, UNIVERSEL_PRIX))

\* C8, amended: the two prices of a row are told apart by their place, not
\* by their size.  On a row of a Fougères table the first price is the unit
\* price and the second the total; on a row of a table read by
\* analyser_universel the last price is the total and the unit price is the
\* total divided by the quantity (the total itself when the quantity is 0).
C8_SelonLaPlace ==
    \A k \in 1..Len(retours) : \A n \in 1..Len(LignesDe(k)) : \A p \in ParTables(k) :
        /\ FougeresPrix(k, LignesDe(k)[n], p, 2) =>
              /\ p.Prix_Unitaire_HT = PremierPrix(LignesDe(k)[n], 3, FOUGERES_PRIX)
              /\ p.Montant_HT = DernierPrix(LignesDe(k)[n], 3, FOUGERES_PRIX)
        /\ UniverselPrix(k, LignesDe(k)[n], p, 2) =>
              /\ p.Montant_HT = DernierPrix(LignesDe(k)[n], 1, UNIVERSEL_PRIX)
              /\ p.Prix_Unitaire_HT =
                    IF p.Nb_Unites > 0 THEN RDiv(p.Montant_HT, RInt(p.Nb_Unites))
                    ELSE p.Montant_HT

\* a row with two prices, the larger first, has given a record whose unit
\* price is the larger and whose total is the smaller
C8_Witness ==
    \E k \in 1..Len(retours) : \E n \in 1..Len(LignesDe(k)) : \E p \in ParTables(k) :
        /\ FougeresPrix(k, LignesDe(k)[n], p, 2)
        /\ RLess(DernierPrix(LignesDe(k)[n], 3, FOUGERES_PRIX),
                 PremierPrix(LignesDe(k)[n], 3, FOUGERES_PRIX))
        /\ p.Prix_Unitaire_HT = PremierPrix(LignesDe(k)[n], 3, FOUGERES_PRIX)
        /\ RLess(p.Montant_HT, p.Prix_Unitaire_HT)

\* the distance between the total of a record and unit price x quantity
Ecart(p) == RAbs(RSub(p.Montant_HT, RMul(p.Prix_Unitaire_HT, RInt(p.Nb_Unites))))
Tolerance == Rat(1, 10)
\* the line of the text of a Fougères invoice that gave the record p, with
\* (total = TRUE) or without the second price
FougeresLigne(k, ligne, m, p, total) ==
    /\ retours[k].fournisseur = "Fougères Boissons"
    /\ m.ok
    /\ p.Code_Article = Group(ligne, m, 1)
    /\ HasGroup(m, 5) = total

\* C9 as the specification states it: a record whose unit price and total
\* were both read has its total within 0.1 of unit price x quantity, the
\* total being recomputed when the values read are further apart.
C9_Tolerance ==
    \A k \in 1..Len(retours) : \A n \in 1..Len(LignesDe(k)) : \A p \in ParTables(k) :
        FougeresPrix(k, LignesDe(k)[n], p, 2) => RLeq(Ecart(p), Tolerance)

C9_Ligne(k, ligne, m, p) ==
    /\ FougeresLigne(k, ligne, m, p, TRUE) => p.Montant_HT = Val(Group(ligne, m, 5))
    /\ FougeresLigne(k, ligne, m, p, FALSE) => Ecart(p) = RZero

\* C9, amended: no tolerance is applied.  A record of a Fougères invoice
\* whose unit price and total were both read carries the total as read,
\* however far it is from unit price x quantity; the total is unit price x
\* quantity only when no total was read.
C9_TotalCommeLu ==
    \A k \in 1..Len(retours) :
        /\ \A n \in 1..Len(LignesDe(k)) : \A p \in ParTables(k) :
              /\ FougeresPrix(k, LignesDe(k)[n], p, 2) =>
                    p.Montant_HT = DernierPrix(LignesDe(k)[n], 3, FOUGERES_PRIX)
              /\ FougeresPrix(k, LignesDe(k)[n], p, 1) => Ecart(p) = RZero
        /\ \A p \in ParTexte(k) : \A n \in 1..Len(SplitLines(TexteDe(k))) :
              C9_Ligne(k, SplitLines(TexteDe(k))[n],
                       ReMatch(FOUGERES_LIGNE, SplitLines(TexteDe(k))[n]), p)

\* a record carries a total read from its row that is further than 0.1 from
\* its unit price x its quantity
C9_Witness ==
    \E k \in 1..Len(retours) : \E n \in 1..Len(LignesDe(k)) : \E p \in ParTables(k) :
        /\ FougeresPrix(k, LignesDe(k)[n], p, 2)
        /\ p.Montant_HT = DernierPrix(LignesDe(k)[n], 3, FOUGERES_PRIX)
        /\ RLess(Tolerance, Ecart(p))

\* the line of the text that analyser_universel gave the record p from
UniverselLigne(k, ligne, m, p) ==
    /\ retours[k].fournisseur \notin {"Fougères Boissons", "Metro", "Promocash"}
    /\ m.ok
    /\ p.Designation = Strip(Group(ligne, m, 2))
\* the one price c is the total and the unit price is the total / quantity
LeSeulEstLeTotal(p, c) ==
    p.Nb_Unites > 0 =>
        p.Montant_HT = c /\ p.Prix_Unitaire_HT = RDiv(c, RInt(p.Nb_Unites))
\* the one price c is the unit price and the total is unit price x quantity
LeSeulEstLUnitaire(p, c) ==
    p.Nb_Unites > 0 =>
        p.Prix_Unitaire_HT = c /\ p.Montant_HT = RMul(c, RInt(p.Nb_Unites))

C10_LigneOriginal(k, ligne, mf, mu, p) ==
    /\ FougeresLigne(k, ligne, mf, p, FALSE) => LeSeulEstLeTotal(p, Val(Group(ligne, mf, 4)))
    /\ UniverselLigne(k, ligne, mu, p) => LeSeulEstLeTotal(p, Val(Group(ligne, mu, 4)))

\* C10 as the specification states it: the one price of a row or line is the
\* total and the unit price is total / quantity, in every extraction path.
C10_LeSeulPrixEstLeTotal ==
    \A k \in 1..Len(retours) :
        /\ \A n \in 1..Len(LignesDe(k)) : \A p \in ParTables(k) :
              /\ FougeresPrix(k, LignesDe(k)[n], p, 1) =>
                    LeSeulEstLeTotal(p, PremierPrix(LignesDe(k)[n], 3, FOUGERES_PRIX))
              /\ UniverselPrix(k, LignesDe(k)[n], p, 1) =>
                    LeSeulEstLeTotal(p, PremierPrix(LignesDe(k)[n], 1, UNIVERSEL_PRIX))
        /\ \A p \in ParTexte(k) : \A n \in 1..Len(SplitLines(TexteDe(k))) :
              C10_LigneOriginal(k, SplitLines(TexteDe(k))[n],
                                ReMatch(FOUGERES_LIGNE, SplitLines(TexteDe(k))[n]),
                                ReMatch(UNIVERSEL_LIGNE, SplitLines(TexteDe(k))[n]), p)

C10_Ligne(k, ligne, mf, mu, p) ==
    /\ FougeresLigne(k, ligne, mf, p, FALSE) => LeSeulEstLUnitaire(p, Val(Group(ligne, mf, 4)))
    /\ UniverselLigne(k, ligne, mu, p) => LeSeulEstLeTotal(p, Val(Group(ligne, mu, 4)))

\* C10, amended: with a quantity q > 0, the one price of a row or line is the
\* total, and the unit price total / q, in analyser_universel (tables and
\* text) and in analyser_metro_avance; in analyser_fougeres_avance (tables
\* and text) it is the unit price, and the total is unit price x q.
C10_SelonLeFournisseur ==
    \A k \in 1..Len(retours) :
        /\ \A n \in 1..Len(LignesDe(k)) : \A p \in ParTables(k) :
              /\ FougeresPrix(k, LignesDe(k)[n], p, 1) =>
                    LeSeulEstLUnitaire(p, PremierPrix(LignesDe(k)[n], 3, FOUGERES_PRIX))
              /\ UniverselPrix(k, LignesDe(k)[n], p, 1) =>
                    LeSeulEstLeTotal(p, PremierPrix(LignesDe(k)[n], 1, UNIVERSEL_PRIX))
        /\ \A p \in ParTexte(k) :
              /\ \A n \in 1..Len(SplitLines(TexteDe(k))) :
                    C10_Ligne(k, SplitLines(TexteDe(k))[n],
                              ReMatch(FOUGERES_LIGNE, SplitLines(TexteDe(k))[n]),
                              ReMatch(UNIVERSEL_LIGNE, SplitLines(TexteDe(k))[n]), p)
              /\ (retours[k].fournisseur \in {"Metro", "Promocash"} /\ p.Nb_Unites > 0) =>
                    p.Prix_Unitaire_HT = RDiv(p.Montant_HT, RInt(p.Nb_Unites))

\* a row of a Fougères table with one price and a quantity above 1 has given
\* a record whose unit price is that price and whose total is larger
C10_Witness ==
    \E k \in 1..Len(retours) : \E n \in 1..Len(LignesDe(k)) : \E p \in ParTables(k) :
        /\ FougeresPrix(k, LignesDe(k)[n], p, 1)
        /\ p.Nb_Unites > 1
        /\ p.Prix_Unitaire_HT = PremierPrix(LignesDe(k)[n], 3, FOUGERES_PRIX)
        /\ RLess(p.Prix_Unitaire_HT, p.Montant_HT)

DateLue(k) ==
    IF retours[k].fournisseur = "Fougères Boissons"
    THEN ReSearch(FOUGERES_DATE, TexteDe(k)).ok
    ELSE IF retours[k].fournisseur \in {"Metro", "Promocash"}
    THEN ReSearch(METRO_DATE, TexteDe(k)).ok \/ ReSearch(METRO_DATE2, TexteDe(k)).ok
    ELSE premier_motif(date_patterns, 1, TexteDe(k)) # ""
NumeroLu(k) ==
    \/ retours[k].fournisseur \in {"Fougères Boissons", "Metro", "Promocash"}
    \/ premier_motif(num_patterns, 1, TexteDe(k)) # ""
TotalSeul(k) == "warning" \in Elems(retours[k].affiche)
\* a record without some of its fields
Sans(p, champs) == [f \in DOMAIN p \ champs |-> p[f]]

\* C12 as the specification states it: the date of the invoice is the only
\* field that depends on the clock, and only when no date pattern is found in
\* the text: two analyses of a document at any two times agree on every other
\* field, the number of the invoice included, and on the date when a date
\* pattern is found, the record of the total alone included.
C12_SeuleLaDate ==
    \A k1 \in 1..Len(retours) : \A k2 \in 1..Len(retours) :
        fichiers[k1] = fichiers[k2] =>
            /\ Len(retours[k1].produits) = Len(retours[k2].produits)
            /\ \A j \in 1..Len(retours[k1].produits) :
                  /\ Sans(retours[k1].produits[j], {"Date_Facture"})
                        = Sans(retours[k2].produits[j], {"Date_Facture"})
                  /\ DateLue(k1) =>
                        retours[k1].produits[j].Date_Facture
                            = retours[k2].produits[j].Date_Facture

\* C12, amended: two analyses of a document at any two times agree on every
\* field but the date and the number of the invoice; they agree on the
\* number unless analyser_universel found no number pattern (AUTO_ and the
\* minute), and on the date when a date pattern is found and the record is
\* not the record of the total alone, whose date is always the current date.
C12_DateEtNumero ==
    \A k1 \in 1..Len(retours) : \A k2 \in 1..Len(retours) :
        fichiers[k1] = fichiers[k2] =>
            /\ Len(retours[k1].produits) = Len(retours[k2].produits)
            /\ \A j \in 1..Len(retours[k1].produits) :
                  /\ Sans(retours[k1].produits[j], {"Date_Facture", "N_Facture"})
                        = Sans(retours[k2].produits[j], {"Date_Facture", "N_Facture"})
                  /\ NumeroLu(k1) =>
                        retours[k1].produits[j].N_Facture
                            = retours[k2].produits[j].N_Facture
                  /\ (DateLue(k1) /\ ~TotalSeul(k1)) =>
                        retours[k1].produits[j].Date_Facture
                            = retours[k2].produits[j].Date_Facture

\* a document with a date and without a number was analysed at two times by
\* analyser_universel: its records differ by the number alone
C12_Witness ==
    \E k1 \in 1..Len(retours) : \E k2 \in 1..Len(retours) :
        /\ fichiers[k1] = fichiers[k2]
        /\ heures[k1] # heures[k2]
        /\ DateLue(k1) /\ ~NumeroLu(k1) /\ ~TotalSeul(k1)
        /\ Len(retours[k1].produits) > 0
        /\ retours[k1].produits[1].N_Facture # retours[k2].produits[1].N_Facture
        /\ retours[k1].produits[1].Date_Facture = retours[k2].produits[1].Date_Facture

\* the rows process_invoices gives for the k-th file when the file is alone
\* in the folder: none when the file is passed over
RowsSeul(k) ==
    LET f == lire_facture(DocumentDe(k))
    IN  IF EstPdf(DocumentDe(k).nom) /\ f.r.ok
        THEN product_rows(f.supplier, f.r.v, f.r.v.products)
        ELSE <<>>
RECURSIVE RowsSeuls(_)
RowsSeuls(n) == IF n = 0 THEN <<>> ELSE RowsSeuls(n - 1) \o RowsSeul(n)

\* C13: the records of a document do not depend on the other documents the
\* same analyser processes before or after it: the list analyser_pdf returns
\* for a file of a batch is the list it returns for that file alone, and
\* once process_invoices has ended the rows of each file of the folder are
\* the rows the file gives when it is alone in the folder.
C13_ChaqueDocumentCommeSeul ==
    /\ \A k \in 1..Len(retours) :
          retours[k].produits
              = analyser_pdf(DocumentDe(k), DocumentDe(k).nom, Horloges[heures[k]]).produits
    /\ (programme = "cli" /\ etat \in {"fini", "exception"}) =>
          all_products = RowsSeuls(Len(fichiers))

\* the date and the number the strategy of the k-th document reads in the
\* text of the document, or gives by default when it finds none, at the time
\* of the call
DateEnTete(k) ==
    LET t == TexteDe(k)
        now == Horloges[heures[k]]
        f == ReSearch(FOUGERES_DATE, t)
        m1 == ReSearch(METRO_DATE, t)
        m2 == ReSearch(METRO_DATE2, t)
        u == premier_motif(date_patterns, 1, t)
    IN  IF retours[k].fournisseur = "Fougères Boissons"
        THEN (IF f.ok THEN Group(t, f, 1) ELSE now.date)
        ELSE IF retours[k].fournisseur \in {"Metro", "Promocash"}
        THEN (IF m1.ok THEN Replace(Group(t, m1, 1), "-", "/")
              ELSE IF m2.ok THEN Replace(Group(t, m2, 1), "-", "/")
              ELSE now.date)
        ELSE (IF u # "" THEN Replace(Replace(u, "-", "/"), ".", "/") ELSE now.date)
NumeroEnTete(k) ==
    LET t == TexteDe(k)
        now == Horloges[heures[k]]
        f == ReSearch(FOUGERES_NUM, t)
        m == ReSearch(METRO_NUM, t)
        u == premier_motif(num_patterns, 1, t)
    IN  IF retours[k].fournisseur = "Fougères Boissons"
        THEN (IF f.ok THEN "VTE-" \o Group(t, f, 1) ELSE "N/A")
        ELSE IF retours[k].fournisseur \in {"Metro", "Promocash"}
        THEN (IF m.ok THEN Group(t, m, 1) ELSE "N/A")
        ELSE (IF u # "" THEN u ELSE "AUTO_" \o now.minute)

\* C14 as the specification states it: every record returned for a document,
\* the record of the total alone included, carries the name of the file and
\* the number and the date of the invoice read in the header of the document.
C14_EnTetePartout ==
    \A k \in 1..Len(retours) : \A p \in Elems(retours[k].produits) :
        /\ p.Fichier_Source = DocumentDe(k).nom
        /\ p.N_Facture = NumeroEnTete(k)
        /\ p.Date_Facture = DateEnTete(k)

\* C14, amended: every record carries the name of the file; every record of
\* a product carries the number and the date its strategy read in the text
\* (or the default of the strategy); the record of the total alone carries
\* the number EXTRACTION_BASIQUE and the current date, whatever the header.
C14_EnTeteDesProduits ==
    \A k \in 1..Len(retours) : \A p \in Elems(retours[k].produits) :
        /\ p.Fichier_Source = DocumentDe(k).nom
        /\ IF TotalSeul(k)
           THEN /\ p.N_Facture = "EXTRACTION_BASIQUE"
                /\ p.Date_Facture = Horloges[heures[k]].date
           ELSE /\ p.N_Facture = NumeroEnTete(k)
                /\ p.Date_Facture = DateEnTete(k)

\* a document with several products whose text has a number and a date, and
\* a document with the total alone whose text has a number and a date, have
\* been analysed
C14_Witness ==
    /\ \E k \in 1..Len(retours) :
          /\ Len(retours[k].produits) > 1 /\ ~TotalSeul(k)
          /\ DateLue(k)
          /\ retours[k].produits[2].N_Facture \notin {"N/A", "EXTRACTION_BASIQUE"}
    /\ \E k \in 1..Len(retours) :
          /\ Len(retours[k].produits) = 1 /\ TotalSeul(k)
          /\ DateLue(k)
          /\ ReSearch(FOUGERES_NUM, TexteDe(k)).ok

\* mot is a substring of s
SousChaine(mot, s) ==
    \E p \in 1..(Len(s) - Len(mot) + 1) : SubSeq(s, p, p + Len(mot) - 1) = mot
\* the categories, by their place in the table, one of whose keywords is a
\* substring of the designation in lower case
CategoriesDe(designation) ==
    {k \in 1..Len(categories_detaillees) :
        \E j \in 1..Len(categories_detaillees[k].mots_cles) :
            SousChaine(categories_detaillees[k].mots_cles[j],
                       MapChars(LowerOf, designation))}

\* C15: determiner_categorie_avancee returns the first category, in the
\* order of the table, one of whose keywords is a substring of the
\* designation in lower case, and "Autre" when no keyword of any category is
\* (the empty designation included).
C15_PremiereCategorie ==
    sortie.fonction = "determiner_categorie_avancee" =>
        sortie.v = IF CategoriesDe(entree.description) = {} THEN "Autre"
                   ELSE categories_detaillees[Min(CategoriesDe(entree.description))].categorie

\* the classifier was given a designation in capitals with keywords of two
\* categories or more
C15_Witness ==
    /\ sortie.fonction = "determiner_categorie_avancee"
    /\ Cardinality(CategoriesDe(entree.description)) >= 2
    /\ entree.description = MapChars(UpperOf, entree.description)

\* C16 as the specification states it: the category of "CRÈME DE CASSIS" is
\* the category of the spirits, not that of the dairy products.
C16_Spiritueux ==
    (sortie.fonction = "determiner_categorie_avancee"
        /\ entree.description = "CRÈME DE CASSIS") =>
            /\ sortie.v = "Spiritueux"
            /\ sortie.v # "Produits Laitiers"

\* C16, amended: the category of "CRÈME DE CASSIS" is "Liqueurs & Apéritifs"
\* (cassis, fourth category), which comes before "Produits Laitiers" (crème,
\* twelfth category); it is not "Spiritueux", no keyword of which it has.
C16_Liqueurs ==
    (sortie.fonction = "determiner_categorie_avancee"
        /\ entree.description = "CRÈME DE CASSIS") =>
            /\ sortie.v = "Liqueurs & Apéritifs"
            /\ CategoriesDe(entree.description) = {4, 12}
            /\ categories_detaillees[12].categorie = "Produits Laitiers"

\* the classifier was given "CRÈME DE CASSIS"
C16_Witness ==
    /\ sortie.fonction = "determiner_categorie_avancee"
    /\ entree.description = "CRÈME DE CASSIS"

\* the number a token of digits writes, with a comma or a point before its
\* decimals and blanks between its digits: the digits of s, and how many of
\* them follow the last comma or point
RECURSIVE SeulsChiffres(_)
SeulsChiffres(s) ==
    IF s = "" THEN ""
    ELSE (IF Ch(s, 1) \in Digits THEN Ch(s, 1) ELSE "") \o SeulsChiffres(SubSeq(s, 2, Len(s)))
Decimales(s) ==
    LET seps == {p \in 1..Len(s) : Ch(s, p) \in {",", "."}}
    IN  IF seps = {} THEN 0 ELSE Len(SeulsChiffres(SubSeq(s, Max(seps), Len(s))))
ValeurEcrite(s) == Rat(DecVal(SeulsChiffres(s)), Pow10(Decimales(s)))

\* the patterns of the contenance, by their place in the list, found in the
\* description in capitals
MotifsTrouves(description) ==
    {k \in 1..Len(patterns_contenance) :
        ReSearch(patterns_contenance[k], MapChars(UpperOf, description)).ok}
\* a value in unite, in litres or kilograms
EnLitresOuKilos(val, unite) ==
    IF unite = "CL" THEN RDiv(val, RInt(100))
    ELSE IF unite \in {"ML", "G"} THEN RDiv(val, RInt(1000))
    ELSE val
\* what the first pattern gives: multiplier, size and unit
FormatMultiplie(u, m) == Group(u, m, 1) \o "x" \o Group(u, m, 2) \o Group(u, m, 3)
ValeurMultipliee(u, m) == RMul(ValeurEcrite(Group(u, m, 1)), ValeurEcrite(Group(u, m, 2)))

\* C17: extraire_contenance_avancee tries its patterns in the order of the
\* list and returns what the first one found gives; a description with a
\* group multiplier x size unit gives the format <m>x<size><unit> and the
\* volume m x size in litres or kilograms, a pack or a count of bottles in
\* the same description notwithstanding; "GIN 6X75CL" gives 6x75CL, 4.5 L.
C17_MultiplicateurDAbord ==
    LET u == MapChars(UpperOf, entree.description)
        K == MotifsTrouves(entree.description)
        m1 == ReSearch(PAT_MULTIPLICATEUR, u)
    IN  /\ (sortie.fonction = "extraire_contenance_avancee" /\ K # {}) =>
              LET m == ReSearch(patterns_contenance[Min(K)], u)
              IN  sortie.v = formatter(Min(K), Group(u, m, 1), Group(u, m, 2), Group(u, m, 3))
        /\ (sortie.fonction = "extraire_contenance_avancee" /\ 1 \in K) =>
              /\ sortie.v.format = FormatMultiplie(u, m1)
              /\ sortie.v.val = ValeurMultipliee(u, m1)
              /\ sortie.v.unite = Group(u, m1, 3)
        /\ (sortie.fonction = "calculer_volume_total" /\ 1 \in K) =>
              /\ sortie.v.contenance_format = FormatMultiplie(u, m1)
              /\ sortie.v.volume_unitaire
                    = EnLitresOuKilos(ValeurMultipliee(u, m1), Group(u, m1, 3))
              /\ sortie.v.unite = IF Group(u, m1, 3) \in {"CL", "ML", "L"} THEN "L" ELSE "KG"
        /\ (sortie.fonction = "calculer_volume_total" /\ entree.description = "GIN 6X75CL") =>
              /\ sortie.v.contenance_format = "6x75CL"
              /\ sortie.v.volume_unitaire = Rat(9, 2)
              /\ sortie.v.unite = "L"

\* the volume of a description with a group multiplier x size unit and a
\* pack of 12 as well was computed
C17_Witness ==
    /\ sortie.fonction = "calculer_volume_total"
    /\ {1, 3} \subseteq MotifsTrouves(entree.description)
    /\ sortie.v.volume_unitaire = Rat(9, 2)

\* the patterns of parse_volume, by their place in the list, found in the
\* description
VolumesTrouves(description) ==
    {k \in 1..Len(volume_patterns) : ReSearch(volume_patterns[k].pattern, description).ok}

\* C18 as the specification states it: a description in which no pattern of
\* the contenance is found, the empty description included, gives the
\* default 1PC, multiplier 1, unit PC, and the volume 1 PC, in
\* extraire_contenance_avancee and in parse_volume alike.
C18_DefautPartout ==
    /\ (sortie.fonction = "extraire_contenance_avancee"
            /\ MotifsTrouves(entree.description) = {}) =>
          sortie.v = [format |-> "1PC", val |-> RInt(1), unite |-> "PC"]
    /\ (sortie.fonction = "calculer_volume_total"
            /\ MotifsTrouves(entree.description) = {}) =>
          /\ sortie.v.volume_unitaire = RInt(1)
          /\ sortie.v.unite = "PC"
    /\ (sortie.fonction = "parse_volume" /\ VolumesTrouves(entree.description) = {}) =>
          /\ sortie.v.volume = RInt(1)
          /\ sortie.v.unit = "PC"

\* C18, amended: in app.py such a description gives the default 1PC,
\* multiplier 1, unit PC, and the volume 1 PC; parse_volume of
\* invoice_analyzer.py gives the volume 0.0 and the empty unit.
C18_DefautSelonLeProgramme ==
    /\ (sortie.fonction = "extraire_contenance_avancee"
            /\ MotifsTrouves(entree.description) = {}) =>
          sortie.v = [format |-> "1PC", val |-> RInt(1), unite |-> "PC"]
    /\ (sortie.fonction = "calculer_volume_total"
            /\ MotifsTrouves(entree.description) = {}) =>
          /\ sortie.v.contenance_format = "1PC"
          /\ sortie.v.volume_unitaire = RInt(1)
          /\ sortie.v.volume_total = RInt(entree.quantite)
          /\ sortie.v.unite = "PC"
    /\ (sortie.fonction = "parse_volume" /\ VolumesTrouves(entree.description) = {}) =>
          /\ sortie.v.volume = RZero
          /\ sortie.v.unit = ""

\* the volume of "PRODUIT SANS FORMAT", in which no pattern is found, was
\* computed
C18_Witness ==
    /\ sortie.fonction = "calculer_volume_total"
    /\ entree.description = "PRODUIT SANS FORMAT"
    /\ MotifsTrouves(entree.description) = {}
    /\ VolumesTrouves(entree.description) = {}

\* C19 as the specification states it: the conversion divides the
\* centilitres by 100 and the millilitres by 1000 to give litres, leaves
\* litres and kilograms as they are, and gives every other unit the unit PC
\* with the value unchanged, so that the unit of a volume is L, KG or PC.
C19_LitresKilosOuPieces ==
    sortie.fonction = "calculer_volume_total" =>
        LET c == extraire_contenance_avancee(entree.description)
        IN  /\ sortie.v.unite \in {"L", "KG", "PC"}
            /\ c.unite = "CL" =>
                  sortie.v.volume_unitaire = RDiv(c.val, RInt(100)) /\ sortie.v.unite = "L"
            /\ c.unite = "ML" =>
                  sortie.v.volume_unitaire = RDiv(c.val, RInt(1000)) /\ sortie.v.unite = "L"
            /\ c.unite \in {"L", "KG"} =>
                  sortie.v.volume_unitaire = c.val /\ sortie.v.unite = c.unite
            /\ c.unite \notin {"CL", "ML", "L", "KG"} =>
                  sortie.v.volume_unitaire = c.val /\ sortie.v.unite = "PC"

\* C19, amended: the conversion divides the centilitres by 100 and the
\* millilitres by 1000 to give litres, divides the grams by 1000 to give
\* kilograms, and leaves litres and kilograms as they are; any other unit
\* (PC, BTL) is kept as it is with the value unchanged, so that the unit of a
\* volume is L, KG, PC or BTL.
C19_LitresKilosOuUnite ==
    sortie.fonction = "calculer_volume_total" =>
        LET c == extraire_contenance_avancee(entree.description)
        IN  /\ sortie.v.unite \in {"L", "KG", "PC", "BTL"}
            /\ c.unite = "CL" =>
                  sortie.v.volume_unitaire = RDiv(c.val, RInt(100)) /\ sortie.v.unite = "L"
            /\ c.unite = "ML" =>
                  sortie.v.volume_unitaire = RDiv(c.val, RInt(1000)) /\ sortie.v.unite = "L"
            /\ c.unite = "G" =>
                  sortie.v.volume_unitaire = RDiv(c.val, RInt(1000)) /\ sortie.v.unite = "KG"
            /\ c.unite \in {"L", "KG"} =>
                  sortie.v.volume_unitaire = c.val /\ sortie.v.unite = c.unite
            /\ c.unite \notin {"CL", "ML", "L", "G", "KG"} =>
                  sortie.v.volume_unitaire = c.val /\ sortie.v.unite = c.unite
            /\ sortie.v.volume_total = RMul(RInt(entree.quantite), sortie.v.volume_unitaire)

\* the volume of a description whose contenance is a count of bottles was
\* computed: its unit is BTL
C19_Witness ==
    /\ sortie.fonction = "calculer_volume_total"
    /\ extraire_contenance_avancee(entree.description).unite = "BTL"
    /\ sortie.v.unite = "BTL"

\* the amount of the record a document with one amount gives: the unit price
\* where analyser_fougeres_avance reads one price, the total elsewhere
MontantLu(place, p) ==
    IF place \in {"cellule Fougères", "ligne Fougères"} THEN p.Prix_Unitaire_HT
    ELSE p.Montant_HT

\* C20: an amount written with a comma or a point before its decimals, with
\* or without a blank between the thousands and the hundreds, is read as the
\* same number at every place a price or an amount is read: a cell of a
\* table, a line of the text, the total of the invoice.
C20_MemeValeur ==
    sortie.fonction = "analyser_pdf" =>
        /\ Len(sortie.v.produits) = 1
        /\ MontantLu(entree.place, sortie.v.produits[1]) = ValeurEcrite(entree.jeton)

\* what each strategy gives for the k-th document when it is run on its own,
\* with the date and the number of the header: the rows of the tables (none
\* for a Metro or Promocash invoice, which has no strategy for tables; <<>>
\* when a row raises), and the lines of the text
TablesSeules(k) ==
    LET rows == ToutesLesLignes(tables_des_pages(DocumentDe(k).pages))
        f == retours[k].fournisseur
        s == IF f = "Fougères Boissons"
             THEN fougeres_tables(rows, DateEnTete(k), NumeroEnTete(k), Ok(<<>>))
             ELSE IF f \in {"Metro", "Promocash"} THEN Ok(<<>>)
             ELSE universel_tables(rows, DateEnTete(k), NumeroEnTete(k), f, Ok(<<>>))
    IN  IF s.ok THEN s.v ELSE <<>>
TexteSeul(k) ==
    LET lignes == SplitLines(TexteDe(k))
        f == retours[k].fournisseur
    IN  IF f = "Fougères Boissons"
        THEN fougeres_texte(lignes, DateEnTete(k), NumeroEnTete(k), <<>>)
        ELSE IF f \in {"Metro", "Promocash"}
        THEN metro_texte(lignes, DateEnTete(k), NumeroEnTete(k), f, <<>>)
        ELSE universel_texte(lignes, DateEnTete(k), NumeroEnTete(k), f, <<>>)
\* the records returned for the k-th document, without the two fields that
\* analyser_pdf adds to the records of a strategy
Bruts(k) ==
    [j \in 1..Len(retours[k].produits) |->
        Sans(retours[k].produits[j], {"Fichier_Source", "Cout_par_unite_de_volume"})]

\* C21: within one document a later strategy has run only if every earlier
\* one gave no record, and the list returned is the output of exactly one
\* strategy: the records of the tables alone, or the records of the lines of
\* the text alone, never records of both.
C21_UneSeuleStrategie ==
    \A k \in 1..Len(retours) :
        /\ \A j \in 1..Len(retours[k].essais) : \A j0 \in 1..(j - 1) :
              retours[k].essais[j0].n = 0
        /\ (Len(retours[k].produits) > 0 /\ ~TotalSeul(k)) =>
              /\ Bruts(k) \in {TablesSeules(k), TexteSeul(k)}
              /\ TablesSeules(k) # <<>> =>
                    /\ Bruts(k) = TablesSeules(k)
                    /\ Len(retours[k].essais) = 1

\* the tables of a document gave records, the lines of its text would have
\* given other records, and the list returned holds the records of the
\* tables alone
C21_Witness ==
    \E k \in 1..Len(retours) :
        /\ TablesSeules(k) # <<>>
        /\ TexteSeul(k) # <<>>
        /\ Elems(TexteSeul(k)) \ Elems(TablesSeules(k)) # {}
        /\ Bruts(k) = TablesSeules(k)
        /\ Len(retours[k].produits) > 0

\* the strategies that ran on the k-th document; the one generic strategy of
\* the program, the pattern of a line of analyser_universel (an optional
\* code, a text, a small whole number, an amount), runs on the documents
\* that analyser_pdf gives to analyser_universel, after its tables
StrategiesTentees(k) == {retours[k].essais[j].strategie : j \in 1..Len(retours[k].essais)}
AStrategiePropre(k) == retours[k].fournisseur \in {"Fougères Boissons", "Metro", "Promocash"}
GeneriqueTentee(k) == ~AStrategiePropre(k) /\ "texte" \in StrategiesTentees(k)
\* what the generic strategy would give for the k-th document
Generique(k) ==
    universel_texte(SplitLines(TexteDe(k)), DateEnTete(k), NumeroEnTete(k),
                    retours[k].fournisseur, <<>>)

\* C22 as the specification states it: for every supplier the extraction of
\* the total alone is applied only after the tables, the lines of the text
\* and the generic strategy have all been attempted and have all given
\* nothing.
C22_TroisStrategiesAvantLeSecours ==
    \A k \in 1..Len(retours) :
        TotalSeul(k) =>
            /\ \A j \in 1..Len(retours[k].essais) : retours[k].essais[j].n = 0
            /\ StrategiesTentees(k) = {"tables", "texte"}
            /\ GeneriqueTentee(k)

\* C22, amended: the extraction of the total alone is applied as soon as the
\* one analyser chosen for the supplier has returned nothing: the tables and
\* the lines of analyser_fougeres_avance, the lines of analyser_metro_avance
\* (which reads no table), or the tables and the generic lines of
\* analyser_universel for every other supplier.  The generic strategy is never
\* attempted on a Fougères, Metro or Promocash document: when the strategies
\* of its own analyser give nothing, the list returned holds no product, even
\* where the generic strategy would have found some.
C22_SecoursApresLAnalyseurChoisi ==
    \A k \in 1..Len(retours) :
        /\ TotalSeul(k) =>
              /\ \A j \in 1..Len(retours[k].essais) : retours[k].essais[j].n = 0
              /\ StrategiesTentees(k) =
                    IF retours[k].fournisseur \in {"Metro", "Promocash"}
                    THEN {"texte"} ELSE {"tables", "texte"}
              /\ GeneriqueTentee(k) <=> ~AStrategiePropre(k)
        /\ (AStrategiePropre(k) /\ "error" \notin Elems(retours[k].affiche)
            /\ TablesSeules(k) = <<>> /\ TexteSeul(k) = <<>>) =>
              /\ TotalSeul(k)
              /\ \A p \in Elems(retours[k].produits) : p.N_Facture = "EXTRACTION_BASIQUE"

\* the total alone has been returned for a Fougères document on which the
\* generic strategy, which was not attempted, would have found a product
C22_Witness ==
    \E k \in 1..Len(retours) :
        /\ TotalSeul(k)
        /\ retours[k].fournisseur = "Fougères Boissons"
        /\ Len(retours[k].produits) = 1
        /\ retours[k].produits[1].N_Facture = "EXTRACTION_BASIQUE"
        /\ Generique(k) # <<>>
        /\ ~GeneriqueTentee(k)

\* the codes of a list of records, and whether a code comes twice
CodesDe(produits) == [j \in 1..Len(produits) |-> produits[j].Code_Article]
CodeEnDouble(codes) ==
    \E a \in 1..Len(codes) : \E b \in 1..Len(codes) :
        a # b /\ codes[a] # "" /\ codes[a] = codes[b]
\* group 1 of each line that one of the patterns matches, in the order of
\* the lines
RECURSIVE CodesLus(_, _)
CodesLus(lignes, patterns) ==
    IF Len(lignes) = 0 THEN <<>>
    ELSE (IF \E n \in 1..Len(patterns) : ReMatch(patterns[n], Head(lignes)).ok
          THEN <<Group(Head(lignes),
                       ReMatch(patterns[Min({n \in 1..Len(patterns) :
                                               ReMatch(patterns[n], Head(lignes)).ok})],
                               Head(lignes)), 1)>>
          ELSE <<>>)
         \o CodesLus(Tail(lignes), patterns)
\* process_invoices has treated the one file of the folder, a Fougères invoice
UnSeulFichierFougeres ==
    /\ programme = "cli" /\ Len(fichiers) = 1 /\ etat = "fini"
    /\ identify_supplier(TexteCli(1)) = "FOUGERES BOISSONS"

\* C23 as the specification states it: the list returned for a document
\* never holds two records with the same non-empty product code.
C23_JamaisDeuxFoisLeCode ==
    /\ \A k \in 1..Len(retours) : ~CodeEnDouble(CodesDe(retours[k].produits))
    /\ UnSeulFichierFougeres =>
          ~CodeEnDouble([j \in 1..Len(all_products) |-> all_products[j].Code])

\* C23, amended: no strategy removes a line whose code an earlier line
\* carried.  Every line of the text that a template matches gives its own
\* record, in the order of the lines: the codes of the records returned by
\* the lines of analyser_fougeres_avance, by analyser_metro_avance and by
\* _parse_fougeres_products are the codes of the matching lines, a code that
\* comes on two lines coming twice.
C23_UneFicheParLigne ==
    /\ \A k \in 1..Len(retours) :
          /\ (retours[k].fournisseur = "Fougères Boissons" /\ ParTexte(k) # {}) =>
                CodesDe(retours[k].produits)
                    = CodesLus(SplitLines(TexteDe(k)), <<FOUGERES_LIGNE>>)
          /\ (retours[k].fournisseur \in {"Metro", "Promocash"} /\ ParTexte(k) # {}) =>
                CodesDe(retours[k].produits) = CodesLus(SplitLines(TexteDe(k)), METRO_LIGNES)
    /\ UnSeulFichierFougeres =>
          [j \in 1..Len(all_products) |-> all_products[j].Code]
              = CodesLus(SplitLines(TexteCli(1)), <<IA_FOUGERES_LIGNE>>)

\* the text of a Fougères invoice has two lines with the same code, and the
\* list returned holds two records with that code
C23_Witness ==
    \E k \in 1..Len(retours) :
        /\ retours[k].fournisseur = "Fougères Boissons"
        /\ ParTexte(k) # {}
        /\ Len(retours[k].produits) = 2
        /\ retours[k].produits[1].Code_Article = retours[k].produits[2].Code_Article
        /\ retours[k].produits[1].Code_Article # ""
        /\ retours[k].produits[1].Nb_Unites # retours[k].produits[2].Nb_Unites

\* C24: a row of a table or a line of the text from which no price is read
\* gives no record: no record has the code of a row without a price cell, and
\* no record of a product carries a total of 0 (no document of the batches
\* writes a price of 0), in the lists analyser_pdf returns and in the rows of
\* process_invoices.
C24_PasDeFicheSansPrix ==
    /\ \A k \in 1..Len(retours) :
          /\ \A n \in 1..Len(LignesDe(k)) : \A p \in ParTables(k) :
                ~FougeresPrix(k, LignesDe(k)[n], p, 0)
          /\ ~TotalSeul(k) =>
                \A p \in Elems(retours[k].produits) : p.Montant_HT # RZero
    /\ \A j \in 1..Len(all_products) : all_products[j].Prix_Total # RZero

\* what analyser_universel reads in a row of a table: whether the first cell
\* is taken as the code, the cells taken as the designation and as the price,
\* and whether the row gives a record (three cells or more, a designation,
\* and a last price that is not 0)
PremiereEstCode(row) == row[1] # "" /\ ReMatch(UNIVERSEL_CODE, Strip(row[1])).ok
CellulesDesignation(row) ==
    {j \in 1..Len(row) :
        /\ row[j] # ""
        /\ ~(j = 1 /\ PremiereEstCode(row))
        /\ ~ReMatch(UNIVERSEL_NUMERIQUE, Strip(row[j])).ok
        /\ Len(Strip(row[j])) > 3}
CellulesMontant(row) ==
    {j \in CellulesPrix(row, 1, UNIVERSEL_PRIX) : ~(j = 1 /\ PremiereEstCode(row))}
LigneUniverselle(row) ==
    /\ Len(row) >= 3
    /\ CellulesDesignation(row) # {}
    /\ CellulesMontant(row) # {}
    /\ PrixLu(row, Max(CellulesMontant(row))) # RZero
Universel(k) == retours[k].fournisseur \notin {"Fougères Boissons", "Metro", "Promocash"}

Derive(k) == ~TotalSeul(k) /\ retours[k].fournisseur # "Fougères Boissons"

\* C26 as the specification states it: with a quantity of 0 the unit price
\* is the total, in every path that derives it, process_invoices included.
C26_UnitaireEgalTotal ==
    /\ \A k \in 1..Len(retours) : \A p \in Elems(retours[k].produits) :
          (Derive(k) /\ p.Nb_Unites = 0) => p.Prix_Unitaire_HT = p.Montant_HT
    /\ \A j \in 1..Len(all_products) :
          (all_products[j].Fournisseur # "CAVE LES 3B" /\ all_products[j].Quantite = RZero) =>
              all_products[j].Prix_Unitaire = all_products[j].Prix_Total

\* C26, amended: with a quantity of 0 the unit price is the total in
\* analyser_universel and analyser_metro_avance; in process_invoices it is 0,
\* whatever the total.
C26_TotalOuZero ==
    /\ \A k \in 1..Len(retours) : \A p \in Elems(retours[k].produits) :
          (Derive(k) /\ p.Nb_Unites = 0) => p.Prix_Unitaire_HT = p.Montant_HT
    /\ \A j \in 1..Len(all_products) :
          (all_products[j].Fournisseur # "CAVE LES 3B" /\ all_products[j].Quantite = RZero) =>
              all_products[j].Prix_Unitaire = RZero

\* process_invoices has given a row with a quantity of 0, a total that is
\* not 0 and a unit price of 0
C26_Witness ==
    \E j \in 1..Len(all_products) :
        /\ all_products[j].Fournisseur # "CAVE LES 3B"
        /\ all_products[j].Quantite = RZero
        /\ all_products[j].Prix_Total # RZero
        /\ all_products[j].Prix_Unitaire = RZero

\* the record of the total alone, which no strategy can give: the number
\* EXTRACTION_BASIQUE is not a number a strategy reads or gives by default
EstTotalSeul(p) == p.N_Facture = "EXTRACTION_BASIQUE"

\* C27: the record of the total alone never comes with records of products:
\* in every list returned for a document either no record is the record of
\* the total alone, or the list is that one record, with quantity 1 and unit PC.
C27_TotalSeulOuProduits ==
    \A k \in 1..Len(retours) :
        \/ \A p \in Elems(retours[k].produits) : ~EstTotalSeul(p)
        \/ /\ Len(retours[k].produits) = 1
           /\ EstTotalSeul(retours[k].produits[1])
           /\ retours[k].produits[1].Nb_Unites = 1
           /\ retours[k].produits[1].Unite = "PC"
           /\ \A j \in 1..Len(retours[k].essais) : retours[k].essais[j].n = 0

\* a document whose text holds a total has given records of products and no
\* record of the total alone, and a document without products has given the
\* record of the total alone
C27_Witness ==
    /\ \E k \in 1..Len(retours) :
          /\ Len(retours[k].produits) > 0
          /\ ReSearch(MONTANT_TOTAL, TexteDe(k)).ok
          /\ \A p \in Elems(retours[k].produits) : ~EstTotalSeul(p)
    /\ \E k \in 1..Len(retours) :
          /\ Len(retours[k].produits) = 1
          /\ EstTotalSeul(retours[k].produits[1])

\* the first of the three patterns of a Metro line that matches ligne (0
\* when none does), and the groups of that pattern that capture the text of
\* the designation and the price: 3 and 4 for the "standard" format, 2 and 3
\* for the "alternatif" format, 2 and 4 for the "court" format
MetroMotif(ligne) ==
    IF \E n \in 1..Len(METRO_LIGNES) : ReMatch(METRO_LIGNES[n], ligne).ok
    THEN Min({n \in 1..Len(METRO_LIGNES) : ReMatch(METRO_LIGNES[n], ligne).ok})
    ELSE 0
GroupeDesignation == <<3, 2, 2>>
GroupePrix == <<4, 3, 4>>
\* the designation and the price the matching lines capture, in their order
RECURSIVE MetroCaptures(_)
MetroCaptures(lignes) ==
    IF Len(lignes) = 0 THEN <<>>
    ELSE LET l == Head(lignes)
             n == MetroMotif(l)
         IN  (IF n = 0 THEN <<>>
              ELSE <<[designation |-> Group(l, ReMatch(METRO_LIGNES[n], l), GroupeDesignation[n]),
                      prix |-> Val(Group(l, ReMatch(METRO_LIGNES[n], l), GroupePrix[n]))]>>)
             \o MetroCaptures(Tail(lignes))

\* C28: in analyser_metro_avance, whichever of the three patterns matches a
\* line, the total of its record is the price that pattern captures, never
\* the quantity or the number of the article, and its designation is the
\* text the pattern captures.
C28_PrixEtDesignationCaptures ==
    \A k \in 1..Len(retours) :
        (retours[k].fournisseur \in {"Metro", "Promocash"} /\ ParTexte(k) # {}) =>
            [j \in 1..Len(retours[k].produits) |->
                [designation |-> retours[k].produits[j].Designation,
                 prix |-> retours[k].produits[j].Montant_HT]]
                = MetroCaptures(SplitLines(TexteDe(k)))

\* C29: no keyword of the table of the classifier is masked by a keyword of
\* an earlier category: the classifier, given a keyword alone, returns the
\* category under which the table lists that keyword.
C29_AucunMotMasque ==
    sortie.fonction = "determiner_categorie_avancee" =>
        \A k \in 1..Len(categories_detaillees) :
            (\E j \in 1..Len(categories_detaillees[k].mots_cles) :
                 categories_detaillees[k].mots_cles[j] = entree.description)
                => sortie.v = categories_detaillees[k].categorie

\* a number that a division has given is a quotient with a denominator
\* above 0; a division by 0 leaves no such number
Defini(x) == x[2] > 0

\* C30: no record is computed with a division by zero: with a quantity of
\* 0, a unit volume of 0 or a total volume of 0, the unit price, the price
\* per litre or kilo and the cost per unit of volume are numbers, in the
\* records of every strategy, after the enrichment and in the rows of
\* process_invoices, and each of the two metrics per volume is 0 when its
\* volume is 0.
C30_SansDivisionParZero ==
    /\ \A k \in 1..Len(retours) : \A p \in Elems(retours[k].produits) :
          /\ Defini(p.Prix_Unitaire_HT)
          /\ Defini(p.Prix_Litre)
          /\ Defini(p.Cout_par_unite_de_volume)
          /\ p.Volume_Unitaire = RZero => p.Prix_Litre = RZero
          /\ p.Volume_Total = RZero => p.Cout_par_unite_de_volume = RZero
    /\ \A j \in 1..Len(all_products) : Defini(all_products[j].Prix_Unitaire)

\* analyser_pdf has returned a record with a unit volume and a total volume
\* of 0 and a price that is not 0: its two metrics per volume are 0
C30_Witness ==
    \E k \in 1..Len(retours) : \E p \in Elems(retours[k].produits) :
        /\ p.Volume_Unitaire = RZero
        /\ p.Volume_Total = RZero
        /\ p.Nb_Unites > 0
        /\ p.Prix_Unitaire_HT # RZero
        /\ p.Prix_Litre = RZero
        /\ p.Cout_par_unite_de_volume = RZero

====
